---------------------------- MODULE Spec2Model ----------------------------
(***************************************************************************)
(* A model of the retrieval subsystem of structured-git-commits:           *)
(*   - the matching primitives (scripts/lib/matching.ts),                  *)
(*   - the composable query filters and the index-accelerated query        *)
(*     (scripts/lib/query.ts),                                             *)
(*   - the trailer index file: build, write, freshness check, load         *)
(*     (scripts/build-trailer-index.ts),                                   *)
(*   - the parse CLI (scripts/parse-commits.ts) and the context hook       *)
(*     (scripts/git-memory-context.ts).                                    *)
(*                                                                         *)
(* Strings are sequences of one-character strings.  Each group of          *)
(* variables belongs to one specification; the other specifications keep   *)
(* it at its idle value.                                                   *)
(***************************************************************************)
EXTENDS Integers, Sequences, FiniteSets, TLC

VARIABLES
  \* --- matching primitives (SpecMatch) ---
  mText,      \* first argument: scopeValue / text
  mKey,       \* second argument: pattern / keyword
  mOp,        \* which primitive was applied: "none" | "scope" | "word"
  mRes,       \* the boolean it returned
  \* --- the repository history (SpecQuery, SpecCli) ---
  log,        \* the parsed commits in git-log order, newest first
  \* --- the query library (SpecQuery) ---
  qOp,        \* "none" | "query"
  qParams,    \* the QueryParams of the query
  qScan,      \* what applyQueryFilters returned: a list of commits
  qIdx,       \* what queryIndexForHashes returned: a list of hashes
  \* --- the repository and the index file (SpecIndex, SpecCli) ---
  gitState,   \* "ok" | "missing" (no git binary) | "norepo" (not a repository)
  tip,        \* the hash HEAD resolves to; 0 while the history is empty
  file,       \* the content of .git/info/trailer-index.json
  \* --- the index build command (SpecIndex) ---
  wPc,        \* "idle" | "write" (index built) | "writing" (file opened)
  wIndex,     \* the result of buildIndex: the TrailerIndex in memory, or Fail
  \* --- one reader: checkFreshness, loadIndex or the context hook ---
  rKind,      \* "none" | "check" | "load" | "hook"
  rPc,        \* "idle" | "check" | "load" | "fallback" | "done"
  rHead,      \* currentHead as read by checkFreshness
  rSeen1,     \* the content checkFreshness read
  rSeen2,     \* the content loadIndex read afterwards
  rResult,    \* the Result the call returned
  hookOut,    \* how the hook ended: "none" | "block" | "nothing" | "uncaught"
  rInterfered, \* the tip or the file changed since the reader started
  \* --- the parse CLI (SpecCli) ---
  touched,    \* the hashes of the commits that change a file under path "p"
  cOp,        \* "none" | "run"
  cOptions,   \* the CliOptions of the run
  cPath,      \* the branch main ended in: "none" | "index" | "index-empty" |
              \* "gitlog" | "error"
  cOut,       \* the commits main printed
  \* --- one run of the context hook over a history (SpecRecency) ---
  ctxOp,        \* "none" | "run"
  ctxSource,    \* where the ContextData came from: "none" | "index" | "gitlog"
  ctxRecent,    \* ContextData.recentCommits
  ctxDecisions, \* ContextData.decisions
  ctxOut,       \* what main printed, as a list of tokens; <<>>: nothing
  \* --- one call of callLocalLlm (SpecLlm) ---
  lPc,        \* "idle" | "fetch" (awaiting fetch) | "json" | "text" (awaiting
              \* the body) | "done"
  lNow,       \* time passed since the call started
  lTimeoutMs, \* req.timeoutMs
  lTimer,     \* the abort timer: "unset" | "armed" | "cleared"
  lAttempts,  \* HTTP requests sent
  lResult,    \* the Result returned
  \* --- the parsers of delegated responses (SpecRlm) ---
  fText,      \* the response text, as a list of tokens
  fOp,        \* "none" | "analyze" | "followup"
  fSignals,   \* what parseAnalyzeResponse returned
  fQueries,   \* what parseFollowUpResponse returned
  fBase,      \* the candidate hashes before the follow-up queries
  fMerged,    \* the candidate hashes after them
  \* --- builds of the index over a raw log (SpecBuild) ---
  bLog,       \* the blocks git log prints, newest first
  bNow,       \* the clock
  bPc,        \* "idle" | "log" (HEAD read, git log awaited)
  bHead,      \* what git rev-parse HEAD gave the running build
  bRuns,      \* the outcomes of the builds, in order
  \* --- the retrofit utility (SpecRetrofit) ---
  tMsg,       \* the message of each commit of the history
  tFile,      \* the cache file .retrofit-cache.json
  tCache,     \* the cache object of the running process
  tPc,        \* the position of the run, "off" when none runs
  tI,         \* the position of the loop in the extracts
  tOpt,       \* the options of the run
  tFirst,     \* the first message while the retry is awaited
  tResults,   \* results, in the order pushed
  tCalls,     \* the commits the run called the API for
  tEarlier,   \* the commits an interrupted run generated a message for
  tRun,       \* the number of runs started
  \* --- the rlm:configure command (SpecConfigure) ---
  kArgs,      \* Deno.args of the run
  kStored,    \* the persisted RLM config
  kExit,      \* the exit code of the run, -1 before it ends
  \* --- the hook installer (SpecHooks) ---
  hDir,       \* the hooks directory: the content of commit-msg and of its backup
  hStart,     \* the hooks directory before the first call
  hTrace,     \* the calls made, each with its exit code
  \* --- one call of callClaude (SpecClaude) ---
  aPc,        \* "idle" | "loop" | "fetch" | "text" | "json" | "delay" | "done"
  aAttempt,   \* the loop variable attempt
  aSent,      \* HTTP requests sent
  aLog,       \* what came back for each request: the response and its body
  aResult     \* the Result returned

matchVars == <<mText, mKey, mOp, mRes>>

queryVars == <<qOp, qParams, qScan, qIdx>>

repoVars == <<gitState, tip, file>>

writerVars == <<wPc, wIndex>>

readerVars == <<rKind, rPc, rHead, rSeen1, rSeen2, rResult, hookOut, rInterfered>>

cliVars == <<touched, cOp, cOptions, cPath, cOut>>

ctxVars == <<ctxOp, ctxSource, ctxRecent, ctxDecisions, ctxOut>>

llmVars == <<lPc, lNow, lTimeoutMs, lTimer, lAttempts, lResult>>

rlmVars == <<fText, fOp, fSignals, fQueries, fBase, fMerged>>

buildVars == <<bLog, bNow, bPc, bHead, bRuns>>

retroVars == <<tMsg, tFile, tCache, tPc, tI, tOpt, tFirst, tResults, tCalls, tEarlier, tRun>>

cfgVars == <<kArgs, kStored, kExit>>

hookVars == <<hDir, hStart, hTrace>>

claudeVars == <<aPc, aAttempt, aSent, aLog, aResult>>

vars == <<matchVars, log, queryVars, repoVars, writerVars, readerVars, cliVars,
          ctxVars, llmVars, rlmVars,
          buildVars,
          retroVars,
          cfgVars,
          hookVars,
          claudeVars>>

(***************************************************************************)
(* The idle value of each group of variables                               *)
(***************************************************************************)
MatchIdle ==
  /\ mText = <<>>
  /\ mKey = <<>>
  /\ mOp = "none"
  /\ mRes = FALSE

QueryIdle ==
  /\ qOp = "none"
  /\ qParams = [intents |-> <<>>, scope |-> <<>>, session |-> "null",
                decisionsOnly |-> FALSE, decidedAgainst |-> <<>>, limit |-> 1]
  /\ qScan = <<>>
  /\ qIdx = <<>>

\* file contents: no file; bytes that are not JSON (corrupt or cut short);
\* a file the build has opened and not finished writing; the JSON text null
Absent == [kind |-> "absent"]

Garbage == [kind |-> "garbage"]

Partial == [kind |-> "partial"]

JsonNull == [kind |-> "jsonNull"]

NoResult == [ok |-> FALSE, none |-> TRUE]

RepoIdle ==
  /\ gitState = "ok"
  /\ tip = 0
  /\ file = Absent

WriterIdle ==
  /\ wPc = "idle"
  /\ wIndex = Absent

ReaderIdle ==
  /\ rKind = "none"
  /\ rPc = "idle"
  /\ rHead = 0
  /\ rSeen1 = Absent
  /\ rSeen2 = Absent
  /\ rResult = NoResult
  /\ hookOut = "none"
  /\ rInterfered = FALSE

CliIdle ==
  /\ touched = {}
  /\ cOp = "none"
  /\ cOptions = [limit |-> 1, intents |-> <<>>, scope |-> <<>>,
                 session |-> "null", decisionsOnly |-> FALSE,
                 decidedAgainst |-> <<>>, path |-> "null", noIndex |-> FALSE,
                 restriction |-> [since |-> 0, sinceCommit |-> 0]]
  /\ cPath = "none"
  /\ cOut = <<>>

CtxIdle ==
  /\ ctxOp = "none"
  /\ ctxSource = "none"
  /\ ctxRecent = <<>>
  /\ ctxDecisions = <<>>
  /\ ctxOut = <<>>

LlmIdle ==
  /\ lPc = "idle"
  /\ lNow = 0
  /\ lTimeoutMs = 1
  /\ lTimer = "unset"
  /\ lAttempts = 0
  /\ lResult = NoResult

EMPTY_SIGNALS == [scopes |-> <<>>, intents |-> <<>>, keywords |-> <<>>]

RlmIdle ==
  /\ fText = <<>>
  /\ fOp = "none"
  /\ fSignals = EMPTY_SIGNALS
  /\ fQueries = <<>>
  /\ fBase = {}
  /\ fMerged = {}

BuildIdle ==
  /\ bLog = <<>>
  /\ bNow = 0
  /\ bPc = "idle"
  /\ bHead = 0
  /\ bRuns = <<>>

RetroIdle ==
  /\ tMsg = <<>>
  /\ tFile = [state |-> "absent"]
  /\ tCache = <<>>
  /\ tPc = "off"
  /\ tI = 0
  /\ tOpt = [resume |-> FALSE, limit |-> 0]
  /\ tFirst = "null"
  /\ tResults = <<>>
  /\ tCalls = {}
  /\ tEarlier = {}
  /\ tRun = 0

CfgIdle ==
  /\ kArgs = <<>>
  /\ kStored = <<>>
  /\ kExit = -1

HooksIdle ==
  /\ hDir = <<>>
  /\ hStart = <<>>
  /\ hTrace = <<>>

ClaudeIdle ==
  /\ aPc = "idle"
  /\ aAttempt = 0
  /\ aSent = 0
  /\ aLog = <<>>
  /\ aResult = [ok |-> FALSE, value |-> "pending"]

(***************************************************************************)
(* Bounds and alphabet                                                     *)
(***************************************************************************)
MaxText == 3

MaxKey == 2

\* the longest history, and the largest --limit
MaxCommits == 3

MaxLimit == 2

\* the number of times the tip moves
MaxTip == 2

\* commits in the history the parse CLI runs on
MaxCliCommits == 2

\* commits in the history the context hook runs on
MaxCtxCommits == 3

\* the longest queries array of a follow-up response
MaxQueries == 3

\* blocks in the raw log the index is built over
MaxBuildCommits == 2

\* the latest reading of the clock during the builds
MaxClock == 2

\* commits the retrofit utility is given
MaxRetroCommits == 2

\* runs of the retrofit utility
MaxRuns == 2

\* arguments of one rlm:configure run, and the largest number given in one
MaxArgs == 2

MaxValue == 2

\* calls of the hook installer on one hooks directory
MaxHookCalls == 3

\* the largest timeoutMs of a delegated call, in ticks of the clock
MaxTimeout == 3

\* the two caps of the context hook (git-memory-context.ts 30-31), scaled
\* down from 10 and 20 so that bounded histories exceed them
MAX_RECENT_COMMITS == 2

MAX_DECISIONS == 2

\* "a"/"A": a word character in both cases; ".": a regex metacharacter that
\* is not a word character; "/": the scope separator, not a word character.
Alphabet == {"a", "A", ".", "/"}

RECURSIVE StrsOfLen(_)
StrsOfLen(n) ==
  IF n = 0 THEN {<<>>}
  ELSE {Append(s, c) : s \in StrsOfLen(n - 1), c \in Alphabet}

Strs(n) == UNION {StrsOfLen(k) : k \in 0..n}

(***************************************************************************)
(* JavaScript string helpers                                               *)
(***************************************************************************)
\* String.prototype.toLowerCase, per character of the alphabet
LowerChar(c) == IF c = "A" THEN "a" ELSE c

toLowerCase(s) == [i \in 1..Len(s) |-> LowerChar(s[i])]

\* String.prototype.startsWith
startsWith(s, p) ==
  /\ Len(p) =< Len(s)
  /\ \A i \in 1..Len(p) : s[i] = p[i]

\* s[k] with a 0-based index k; "undefined" past the end
charAt0(s, k) == IF k + 1 \in 1..Len(s) THEN s[k + 1] ELSE "undefined"

(***************************************************************************)
(* scopeMatches  (matching.ts 16-20)                                       *)
(***************************************************************************)
scopeMatches_NoSeparator(scopeValue, pattern) ==
  LET s == toLowerCase(scopeValue)
      p == toLowerCase(pattern)
  IN  s = p \/ startsWith(s, p)

scopeMatches(scopeValue, pattern) ==
  LET s == toLowerCase(scopeValue)
      p == toLowerCase(pattern)
  IN  s = p \/ (startsWith(s, p) /\ charAt0(s, Len(p)) = "/")

(***************************************************************************)
(* wordBoundaryMatch  (matching.ts 28-31)                                  *)
(*                                                                         *)
(* The keyword is escaped, wrapped in \b ... \b, compiled as a regular     *)
(* expression with the i flag, and tested against the text.                *)
(***************************************************************************)
\* the character class of keyword.replace: . * + ? ^ $ { } ( ) | [ ] \
RegexSpecials ==
  {".", "*", "+", "?", "^", "$", "{", "}", "(", ")", "|", "[", "]", "\\"}

escapeRegex_None(k) == k

RECURSIVE escapeRegex(_)
escapeRegex(k) ==
  IF k = <<>> THEN <<>>
  ELSE (IF Head(k) \in RegexSpecials THEN <<"\\", Head(k)>> ELSE <<Head(k)>>)
       \o escapeRegex(Tail(k))

\* the source text handed to new RegExp
regexSource(keyword) == <<"\\", "b">> \o escapeRegex(keyword) \o <<"\\", "b">>

\* The regular-expression grammar over the alphabet: \b is the word-boundary
\* assertion, a backslash before any other character makes it a literal, an
\* unescaped "." matches any character, everything else is a literal.
RECURSIVE parseRegex(_)
parseRegex(src) ==
  IF src = <<>> THEN <<>>
  ELSE IF Head(src) = "\\" /\ Len(src) >= 2
       THEN (IF src[2] = "b" THEN <<[t |-> "wb"]>>
                             ELSE <<[t |-> "lit", c |-> src[2]]>>)
            \o parseRegex(SubSeq(src, 3, Len(src)))
       ELSE (IF Head(src) = "." THEN <<[t |-> "any"]>>
                                ELSE <<[t |-> "lit", c |-> Head(src)]>>)
            \o parseRegex(Tail(src))

\* \w
IsWordChar(c) == c \in {"a", "A"}

\* \b at 0-based position pos of text (between text[pos] and text[pos+1])
IsWordBoundary(text, pos) ==
  LET before == pos >= 1 /\ IsWordChar(text[pos])
      after  == pos < Len(text) /\ IsWordChar(text[pos + 1])
  IN  before # after

\* Canonicalize of the i flag (upper-casing)
Canonicalize(c) == IF c = "a" THEN "A" ELSE c

RECURSIVE matchFrom(_, _, _, _)
matchFrom(toks, text, pos, ti) ==
  IF ti > Len(toks) THEN TRUE
  ELSE LET tok == toks[ti] IN
       CASE tok.t = "wb"  -> IsWordBoundary(text, pos)
                             /\ matchFrom(toks, text, pos, ti + 1)
         [] tok.t = "any" -> pos < Len(text)
                             /\ matchFrom(toks, text, pos + 1, ti + 1)
         [] OTHER         -> pos < Len(text)
                             /\ Canonicalize(text[pos + 1]) = Canonicalize(tok.c)
                             /\ matchFrom(toks, text, pos + 1, ti + 1)

\* RegExp.prototype.test
regexTest(toks, text) == \E start \in 0..Len(text) : matchFrom(toks, text, start, 1)

wordBoundaryMatch(text, keyword) == regexTest(parseRegex(regexSource(keyword)), text)

(***************************************************************************)
(* Commits and query parameters                                            *)
(*                                                                         *)
(* A nullable string of the source is "null" or the string; a nullable     *)
(* character string (scope pattern, keyword) is <<>> for null and <<s>>    *)
(* for the string s.  Intents "A" and "B" stand for two members of the     *)
(* IntentType enumeration, "C" for one no commit carries.                  *)
(***************************************************************************)
ScopeA   == <<"a">>

ScopeAA  == <<"a", "a">>

ScopeAsA == <<"a", "/", "a">>

\* the trailer values a commit can carry: intent, scope list, session and
\* decided-against texts
CommitShapes ==
  { [intent |-> "A",    scope |-> <<ScopeAsA>>,         session |-> "s1",
     decidedAgainst |-> <<>>],
    [intent |-> "B",    scope |-> <<ScopeA>>,           session |-> "null",
     decidedAgainst |-> << <<"a">> >>],
    [intent |-> "A",    scope |-> <<ScopeAA>>,          session |-> "null",
     decidedAgainst |-> << <<"a", "a">> >>],
    [intent |-> "null", scope |-> <<>>,                 session |-> "s1",
     decidedAgainst |-> <<>>],
    [intent |-> "B",    scope |-> <<ScopeAA, ScopeAsA>>, session |-> "s1",
     decidedAgainst |-> << <<"a", "a">>, <<"a", ".">> >>] }

mkCommit(h, shape) ==
  [hash |-> h, date |-> [local |-> h, offset |-> 0],
   intent |-> shape.intent, scope |-> shape.scope,
   session |-> shape.session, decidedAgainst |-> shape.decidedAgainst]

IntentLists == {<<>>, <<"A">>, <<"B">>, <<"C">>, <<"A", "B">>, <<"B", "A">>}

ParamSet ==
  [intents : IntentLists,
   scope : {<<>>, <<ScopeA>>, <<ScopeAsA>>},
   session : {"null", "s1"},
   decisionsOnly : BOOLEAN,
   decidedAgainst : {<<>>, << <<"a">> >>},
   limit : 1..MaxLimit]

\* JavaScript truthiness of a nullable string
TruthyStr(x) == x \notin {"null", ""}

TruthyChars(x) == x # <<>> /\ x[1] # <<>>

\* Array.prototype.slice(0, n)
slice0(seq, n) == SubSeq(seq, 1, IF n < Len(seq) THEN n ELSE Len(seq))

\* Array.prototype.includes / some
includes(seq, x) == \E i \in 1..Len(seq) : seq[i] = x

(***************************************************************************)
(* The composable filters  (query.ts 39-70)                                *)
(***************************************************************************)
filterByIntents_First(intents, commits) ==
  IF Len(intents) = 0 THEN commits
  ELSE LET keep(c) == c.intent # "null" /\ c.intent = intents[1]
       IN  SelectSeq(commits, keep)

filterByIntents(intents, commits) ==
  IF Len(intents) = 0 THEN commits
  ELSE LET keep(c) == c.intent # "null" /\ includes(intents, c.intent)
       IN  SelectSeq(commits, keep)

filterByScope(pattern, commits) ==
  LET keep(c) == \E i \in 1..Len(c.scope) : scopeMatches(c.scope[i], pattern)
  IN  SelectSeq(commits, keep)

filterBySession(session, commits) ==
  LET keep(c) == c.session = session
  IN  SelectSeq(commits, keep)

filterDecisionsOnly(commits) ==
  LET keep(c) == Len(c.decidedAgainst) > 0
  IN  SelectSeq(commits, keep)

filterByDecidedAgainst(keyword, commits) ==
  LET keep(c) == \E i \in 1..Len(c.decidedAgainst) :
                    wordBoundaryMatch(c.decidedAgainst[i], keyword)
  IN  SelectSeq(commits, keep)

\* the predicate filters of applyQueryFilters, in their fixed order, before
\* the final slice  (query.ts 85-105)
applyPredicateFilters(commits, params) ==
  LET r1 == IF Len(params.intents) > 0
            THEN filterByIntents(params.intents, commits) ELSE commits
      r2 == IF TruthyChars(params.scope)
            THEN filterByScope(params.scope[1], r1) ELSE r1
      r3 == IF TruthyStr(params.session)
            THEN filterBySession(params.session, r2) ELSE r2
      r4 == IF params.decisionsOnly THEN filterDecisionsOnly(r3) ELSE r3
      r5 == IF TruthyChars(params.decidedAgainst)
            THEN filterByDecidedAgainst(params.decidedAgainst[1], r4) ELSE r4
  IN  r5

\* applyQueryFilters  (query.ts 81-108)
applyQueryFilters(commits, params) ==
  slice0(applyPredicateFilters(commits, params), params.limit)

(***************************************************************************)
(* buildIndex  (build-trailer-index.ts, part_004 456-525)                  *)
(*                                                                         *)
(* A JavaScript object used as a map is a sequence of [k, v] entries in    *)
(* key-insertion order, the order Object.entries walks.                    *)
(***************************************************************************)
hasKey(obj, k) == \E i \in 1..Len(obj) : obj[i].k = k

\* obj[k] ?? []
lookup(obj, k) ==
  IF hasKey(obj, k)
  THEN obj[CHOOSE i \in 1..Len(obj) : obj[i].k = k].v
  ELSE <<>>

\* if (!obj[k]) obj[k] = []; obj[k].push(h)
pushUnder(obj, k, h) ==
  IF hasKey(obj, k)
  THEN [i \in 1..Len(obj) |->
          IF obj[i].k = k THEN [k |-> k, v |-> Append(obj[i].v, h)] ELSE obj[i]]
  ELSE Append(obj, [k |-> k, v |-> <<h>>])

RECURSIVE pushScopes(_, _, _)
pushScopes(obj, scopes, h) ==
  IF scopes = <<>> THEN obj
  ELSE pushScopes(pushUnder(obj, Head(scopes), h), Tail(scopes), h)

\* toIndexedCommit  (part_004 446-454)
toIndexedCommit(c) ==
  [hash |-> c.hash, date |-> c.date, intent |-> c.intent, scope |-> c.scope,
   session |-> c.session, decidedAgainst |-> c.decidedAgainst]

EmptyIndexData ==
  [byIntent |-> <<>>, byScope |-> <<>>, bySession |-> <<>>,
   withDecidedAgainst |-> <<>>, commits |-> <<>>]

\* one turn of the loop over the commits  (part_004 483-510)
indexCommit(acc, c) ==
  [byIntent |-> IF c.intent # "null"
                THEN pushUnder(acc.byIntent, c.intent, c.hash)
                ELSE acc.byIntent,
   byScope |-> pushScopes(acc.byScope, c.scope, c.hash),
   bySession |-> IF TruthyStr(c.session)
                 THEN pushUnder(acc.bySession, c.session, c.hash)
                 ELSE acc.bySession,
   withDecidedAgainst |-> IF Len(c.decidedAgainst) > 0
                          THEN Append(acc.withDecidedAgainst, c.hash)
                          ELSE acc.withDecidedAgainst,
   commits |-> Append(acc.commits, [k |-> c.hash, v |-> toIndexedCommit(c)])]

RECURSIVE indexAll(_, _)
indexAll(acc, commits) ==
  IF commits = <<>> THEN acc
  ELSE indexAll(indexCommit(acc, Head(commits)), Tail(commits))

\* the TrailerIndex built over the commits, for the tip headCommit
buildIndex(commits, headCommit) ==
  LET d == indexAll(EmptyIndexData, commits)
  IN  [version |-> 1, headCommit |-> headCommit, commitCount |-> Len(commits),
       byIntent |-> d.byIntent, byScope |-> d.byScope,
       bySession |-> d.bySession,
       withDecidedAgainst |-> d.withDecidedAgainst, commits |-> d.commits]

(***************************************************************************)
(* queryIndexForHashes  (query.ts 142-191)                                 *)
(*                                                                         *)
(* candidateHashes is null or a Set, which keeps insertion order: a        *)
(* sequence without repetitions.                                           *)
(***************************************************************************)
\* new Set(hashes): the hashes in order of first occurrence
RECURSIVE newSet(_)
newSet(hashes) ==
  IF hashes = <<>> THEN <<>>
  ELSE LET n == Len(hashes)
           front == newSet(SubSeq(hashes, 1, n - 1))
       IN  IF includes(front, hashes[n]) THEN front ELSE Append(front, hashes[n])

NullCandidates == [isNull |-> TRUE, set |-> <<>>]

intersect(cand, hashes) ==
  IF cand.isNull
  THEN [isNull |-> FALSE, set |-> newSet(hashes)]
  ELSE LET keep(h) == includes(hashes, h)
       IN  [isNull |-> FALSE, set |-> SelectSeq(cand.set, keep)]

\* the hashes under every intent of the list, in the order of the list
RECURSIVE intentHashes(_, _)
intentHashes(index, intents) ==
  IF intents = <<>> THEN <<>>
  ELSE lookup(index.byIntent, Head(intents)) \o intentHashes(index, Tail(intents))

scopeHashes_RawKey(byScope, pattern) == lookup(byScope, pattern)

\* the hashes under every scope key the pattern matches, in key order
RECURSIVE scopeHashes(_, _)
scopeHashes(byScope, pattern) ==
  IF byScope = <<>> THEN <<>>
  ELSE (IF scopeMatches(Head(byScope).k, pattern) THEN Head(byScope).v ELSE <<>>)
       \o scopeHashes(Tail(byScope), pattern)

queryIndexForHashes(index, params) ==
  LET c0 == NullCandidates
      c1 == IF Len(params.intents) > 0
            THEN intersect(c0, newSet(intentHashes(index, params.intents)))
            ELSE c0
      c2 == IF TruthyStr(params.session)
            THEN intersect(c1, lookup(index.bySession, params.session))
            ELSE c1
      c3 == IF params.decisionsOnly \/ TruthyChars(params.decidedAgainst)
            THEN intersect(c2, index.withDecidedAgainst)
            ELSE c2
      c4 == IF TruthyChars(params.scope)
            THEN intersect(c3, scopeHashes(index.byScope, params.scope[1]))
            ELSE c3
  IN  IF c4.isNull THEN <<>> ELSE slice0(c4.set, params.limit)

(***************************************************************************)
(* The repository history                                                  *)
(***************************************************************************)
\* git rev-parse HEAD: the hash of the newest commit (0: no commit yet)
headOf(commits) == IF commits = <<>> THEN 0 ELSE commits[1].hash

\* git commit: a new commit becomes the tip
CommitFrom(shapes, max) ==
  /\ Len(log) < max
  /\ \E shape \in shapes :
       log' = <<mkCommit(Len(log) + 1, shape)>> \o log

Commit ==
  /\ qOp = "none"
  /\ CommitFrom(CommitShapes, MaxCommits)
  /\ UNCHANGED <<claudeVars, hookVars, cfgVars, retroVars, buildVars, rlmVars, llmVars, ctxVars, cliVars, matchVars, queryVars, repoVars, writerVars, readerVars>>

(***************************************************************************)
(* SpecQuery: one query answered by the full scan and by the index         *)
(***************************************************************************)
InitQuery ==
  /\ MatchIdle
  /\ log = <<>>
  /\ QueryIdle
  /\ RepoIdle
  /\ WriterIdle
  /\ ReaderIdle
  /\ CliIdle
  /\ CtxIdle
  /\ LlmIdle
  /\ RlmIdle
  /\ BuildIdle
  /\ RetroIdle
  /\ CfgIdle
  /\ HooksIdle
  /\ ClaudeIdle

\* both query paths over the same history, the index built at its tip
Query ==
  /\ qOp = "none"
  /\ \E params \in ParamSet :
       /\ qParams' = params
       /\ qScan' = applyQueryFilters(log, params)
       /\ qIdx' = queryIndexForHashes(buildIndex(log, headOf(log)), params)
  /\ qOp' = "query"
  /\ UNCHANGED <<claudeVars, hookVars, cfgVars, retroVars, buildVars, rlmVars, llmVars, ctxVars, cliVars, matchVars, log, repoVars, writerVars, readerVars>>

NextQuery ==
  \/ Commit
  \/ Query

SpecQuery == InitQuery /\ [][NextQuery]_vars

(***************************************************************************)
(* The index file  (build-trailer-index.ts, part_004 325-597)              *)
(*                                                                         *)
(* A file holding a JSON object is [kind |-> "index", headCommit, version, *)
(* body].  In SpecIndex the body is "ok" (every other field of a           *)
(* TrailerIndex present and well-formed), "empty" (well-formed, no commit) *)
(* or "malformed" (the commits map missing).                               *)
(***************************************************************************)
IndexFile(h, v, b) == [kind |-> "index", headCommit |-> h, version |-> v, body |-> b]

Fail == [ok |-> FALSE, none |-> FALSE]

OkNull == [ok |-> TRUE, null |-> TRUE]

OkIndex(ix) == [ok |-> TRUE, null |-> FALSE, index |-> ix]

OkFresh(fresh, currentHead) == [ok |-> TRUE, fresh |-> fresh, currentHead |-> currentHead]

\* Deno.readTextFile followed by JSON.parse returns a value
parses(content) == content.kind \in {"jsonNull", "index"}

\* the try block of checkFreshness  (part_004 407-417): a missing file, bytes
\* that do not parse and the property access on null all end in the catch
freshRead_IgnoreHead(content, currentHead) == content.kind = "index"

freshRead(content, currentHead) ==
  IF ~parses(content) THEN FALSE
  ELSE IF content.kind = "jsonNull" THEN FALSE
  ELSE content.headCommit = currentHead

\* the try block of loadIndex  (part_004 432-439)
loadRead_AnyVersion(content) ==
  IF content.kind = "index" THEN OkIndex(content) ELSE OkNull

loadRead(content) ==
  IF ~parses(content) THEN OkNull
  ELSE IF content.kind = "jsonNull" THEN OkNull
  ELSE IF content.version # 1 THEN OkNull
  ELSE OkIndex(content)

\* git rev-parse --git-dir and git rev-parse HEAD both succeed
gitResolves == gitState = "ok" /\ tip >= 1

\* extractFromIndex and formatContext  (git-memory-context.ts 78-114,
\* 166-201): Object.values(index.commits) throws when commits is missing;
\* no commit gives the empty string, which is not printed
hookFromIndex(ix) ==
  IF ix.body = "malformed" THEN "uncaught"
  ELSE IF ix.body = "empty" THEN "nothing"
  ELSE "block"

(***************************************************************************)
(* The environment of the index file                                       *)
(***************************************************************************)
touch == rInterfered' = (rPc # "idle")

\* a commit moves the tip
MoveTip ==
  /\ gitState = "ok"
  /\ tip < MaxTip
  /\ tip' = tip + 1
  /\ touch
  /\ UNCHANGED <<claudeVars, hookVars, cfgVars, retroVars, buildVars, rlmVars, llmVars, ctxVars, cliVars, matchVars, log, queryVars, gitState, file, writerVars,
                 rKind, rPc, rHead, rSeen1, rSeen2, rResult, hookOut>>

\* what another program, another version of the tool or a disk fault can
\* leave in the file
TamperSet ==
  {Absent, Garbage, JsonNull}
  \cup {IndexFile(h, v, b) : h \in 1..MaxTip, v \in {1, 2},
                            b \in {"ok", "empty", "malformed"}}

Tamper ==
  /\ gitState = "ok"
  /\ wPc = "idle"
  /\ \E c \in TamperSet : file' = c /\ c # file
  /\ touch
  /\ UNCHANGED <<claudeVars, hookVars, cfgVars, retroVars, buildVars, rlmVars, llmVars, ctxVars, cliVars, matchVars, log, queryVars, gitState, tip, writerVars,
                 rKind, rPc, rHead, rSeen1, rSeen2, rResult, hookOut>>

(***************************************************************************)
(* The index build command: main, buildIndex, writeIndex                   *)
(* (part_004 550-593, 456-525, 531-544)                                    *)
(***************************************************************************)
\* buildIndex reads HEAD and the log; with no HEAD it fails and main exits
\* before writing
WrBuild ==
  /\ wPc = "idle"
  /\ gitResolves
  /\ wIndex' = IndexFile(tip, 1, "ok")
  /\ wPc' = "write"
  /\ UNCHANGED <<claudeVars, hookVars, cfgVars, retroVars, buildVars, rlmVars, llmVars, ctxVars, cliVars, matchVars, log, queryVars, repoVars, readerVars>>

\* main after buildIndex  (part_004 574-578): on an error it prints the
\* message and exits with 1; otherwise it goes on to writeIndex
mainAfterBuild_NoCheck(result) == "write"

mainAfterBuild(result) == IF ~result.ok THEN "idle" ELSE "write"

\* buildIndex returns the failure of git rev-parse HEAD or of git log
\* (part_004 457-465)
WrBuildFails ==
  /\ wPc = "idle"
  /\ ~gitResolves
  /\ wIndex' = Fail
  /\ wPc' = mainAfterBuild(Fail)
  /\ UNCHANGED <<claudeVars, hookVars, cfgVars, retroVars, buildVars, rlmVars, llmVars, ctxVars, cliVars, matchVars, log, queryVars, repoVars, readerVars>>

\* Deno.writeTextFile opens the index path itself, truncating it
WrOpen ==
  /\ wPc = "write"
  /\ file' = Partial
  /\ wPc' = "writing"
  /\ touch
  /\ UNCHANGED <<claudeVars, hookVars, cfgVars, retroVars, buildVars, rlmVars, llmVars, ctxVars, cliVars, matchVars, log, queryVars, gitState, tip, wIndex,
                 rKind, rPc, rHead, rSeen1, rSeen2, rResult, hookOut>>

\* the last byte is written
WrFinish ==
  /\ wPc = "writing"
  /\ file' = wIndex
  /\ wPc' = "idle"
  /\ touch
  /\ UNCHANGED <<claudeVars, hookVars, cfgVars, retroVars, buildVars, rlmVars, llmVars, ctxVars, cliVars, matchVars, log, queryVars, gitState, tip, wIndex,
                 rKind, rPc, rHead, rSeen1, rSeen2, rResult, hookOut>>

\* the write fails part-way (Result.fail, exit 1): the file stays cut short
WrFail ==
  /\ wPc = "writing"
  /\ file' = Garbage
  /\ wPc' = "idle"
  /\ touch
  /\ UNCHANGED <<claudeVars, hookVars, cfgVars, retroVars, buildVars, rlmVars, llmVars, ctxVars, cliVars, matchVars, log, queryVars, gitState, tip, wIndex,
                 rKind, rPc, rHead, rSeen1, rSeen2, rResult, hookOut>>

(***************************************************************************)
(* A reader: checkFreshness (part_004 395-418), loadIndex (424-440), or    *)
(* the hook's main (git-memory-context.ts 207-235).  Each step is one      *)
(* await of the code.                                                      *)
(***************************************************************************)
\* getIndexPath and getHeadCommit: on a failure checkFreshness and loadIndex
\* return it, and the hook goes on to its fallback
RdStart ==
  /\ rPc = "idle"
  /\ rKind = "none"
  /\ \E kind \in {"check", "load", "hook"} :
       /\ rKind' = kind
       /\ IF gitResolves
          THEN /\ rHead' = tip
               /\ rPc' = "check"
               /\ rResult' = rResult
          ELSE /\ rHead' = rHead
               /\ rPc' = IF kind = "hook" THEN "fallback" ELSE "done"
               /\ rResult' = Fail
  /\ rInterfered' = FALSE
  /\ UNCHANGED <<claudeVars, hookVars, cfgVars, retroVars, buildVars, rlmVars, llmVars, ctxVars, cliVars, matchVars, log, queryVars, repoVars, writerVars,
                 rSeen1, rSeen2, hookOut>>

\* the read of checkFreshness; loadIndex returns null at once when not fresh
RdCheck ==
  /\ rPc = "check"
  /\ rSeen1' = file
  /\ LET fresh == freshRead(file, rHead) IN
       IF rKind = "check"
       THEN /\ rResult' = OkFresh(fresh, rHead)
            /\ rPc' = "done"
       ELSE IF fresh
       THEN /\ rResult' = rResult
            /\ rPc' = "load"
       ELSE /\ rResult' = OkNull
            /\ rPc' = IF rKind = "hook" THEN "fallback" ELSE "done"
  /\ UNCHANGED <<claudeVars, hookVars, cfgVars, retroVars, buildVars, rlmVars, llmVars, ctxVars, cliVars, matchVars, log, queryVars, repoVars, writerVars,
                 rKind, rHead, rSeen2, hookOut, rInterfered>>

\* the second read, of loadIndex; the hook formats what it got
RdLoad ==
  /\ rPc = "load"
  /\ rSeen2' = file
  /\ LET res == loadRead(file) IN
       /\ rResult' = res
       /\ IF rKind = "hook"
          THEN IF res.null
               THEN /\ rPc' = "fallback"
                    /\ hookOut' = hookOut
               ELSE /\ rPc' = "done"
                    /\ hookOut' = hookFromIndex(res.index)
          ELSE /\ rPc' = "done"
               /\ hookOut' = hookOut
  /\ UNCHANGED <<claudeVars, hookVars, cfgVars, retroVars, buildVars, rlmVars, llmVars, ctxVars, cliVars, matchVars, log, queryVars, repoVars, writerVars,
                 rKind, rHead, rSeen1, rInterfered>>

\* extractFromGitLog  (git-memory-context.ts 120-160): a failed git log ends
\* the hook silently; otherwise the structured commits among the last ten
\* are printed, if there is any
HookFallback ==
  /\ rPc = "fallback"
  /\ IF gitResolves
     THEN hookOut' \in {"block", "nothing"}
     ELSE hookOut' = "nothing"
  /\ rPc' = "done"
  /\ UNCHANGED <<claudeVars, hookVars, cfgVars, retroVars, buildVars, rlmVars, llmVars, ctxVars, cliVars, matchVars, log, queryVars, repoVars, writerVars,
                 rKind, rHead, rSeen1, rSeen2, rResult, rInterfered>>

(***************************************************************************)
(* SpecIndex: the index file, its writer and one reader                    *)
(***************************************************************************)
InitIndex ==
  /\ MatchIdle
  /\ log = <<>>
  /\ QueryIdle
  /\ gitState \in {"ok", "missing", "norepo"}
  /\ tip = 0
  /\ file = Absent
  /\ WriterIdle
  /\ ReaderIdle
  /\ CliIdle
  /\ CtxIdle
  /\ LlmIdle
  /\ RlmIdle
  /\ BuildIdle
  /\ RetroIdle
  /\ CfgIdle
  /\ HooksIdle
  /\ ClaudeIdle

NextIndex ==
  \/ MoveTip
  \/ Tamper
  \/ WrBuild
  \/ WrBuildFails
  \/ WrOpen
  \/ WrFinish
  \/ WrFail
  \/ RdStart
  \/ RdCheck
  \/ RdLoad
  \/ HookFallback

SpecIndex == InitIndex /\ [][NextIndex]_vars

(***************************************************************************)
(* The parse CLI: main of parse-commits.ts  (263-338)                      *)
(*                                                                         *)
(* The history is log, HEAD is headOf(log), and the index file holds the   *)
(* TrailerIndex the build command made of the history it saw, as the body  *)
(* of an IndexFile.  Every commit of log parses as a structured commit.    *)
(***************************************************************************)
\* the commits of the CLI runs
CliShapes ==
  {s \in CommitShapes : \A i \in 1..Len(s.scope) : s.scope[i] # ScopeAA}

\* --since=<date> and --since-commit=<hash>: the date is the author date of
\* the second commit, the hash that of the first; 0: the option is not given
SinceSet ==
  { [since |-> 0, sinceCommit |-> 0],
    [since |-> 2, sinceCommit |-> 0],
    [since |-> 0, sinceCommit |-> 1] }

\* parseCliArgs  (parse-commits.ts 185-223): the limit is positive
CliOptionSet ==
  [limit : 1..MaxLimit,
   intents : {<<>>, <<"A">>, <<"C">>, <<"A", "B">>},
   scope : {<<>>, <<ScopeA>>},
   session : {"null", "s1"},
   decisionsOnly : {FALSE},
   decidedAgainst : {<<>>, << <<"a">> >>},
   path : {"null", "p"},
   noIndex : BOOLEAN,
   restriction : SinceSet]

\* toQueryParams  (parse-commits.ts 230-237)
toQueryParams(options) ==
  [intents |-> options.intents, scope |-> options.scope,
   session |-> options.session, decisionsOnly |-> options.decisionsOnly,
   decidedAgainst |-> options.decidedAgainst, limit |-> options.limit]

\* canUseIndex  (query.ts 119-133)
canUseIndex(params, opts) ==
  IF opts.noIndex THEN FALSE
  ELSE IF TruthyStr(opts.path) THEN FALSE
  ELSE \/ Len(params.intents) > 0
       \/ TruthyChars(params.scope)
       \/ TruthyStr(params.session)
       \/ params.decisionsOnly
       \/ TruthyChars(params.decidedAgainst)

\* loadIndex called in a repository nobody else is writing to
loadIndexNow ==
  IF headOf(log) = 0 THEN Fail
  ELSE IF freshRead(file, headOf(log)) THEN loadRead(file)
  ELSE OkNull

\* git log --grep: with several patterns a commit is kept when its message
\* matches any of them  (buildGitArgs, parse-commits.ts 60-83)
grepKeeps(c, options) ==
  LET byIntent == Len(options.intents) = 1
      bySession == TruthyStr(options.session)
  IN  IF ~byIntent /\ ~bySession THEN TRUE
      ELSE \/ byIntent /\ c.intent = options.intents[1]
           \/ bySession /\ c.session = options.session

\* git log -<limit> [--since=...] [--grep=...] [<commit>..HEAD] [-- path]:
\* the newest limit commits among the ones the patterns, the date, the range
\* and the path keep
gitLog(options) ==
  LET keeps(c) == /\ grepKeeps(c, options)
                  /\ TruthyStr(options.path) => c.hash \in touched
                  /\ options.restriction.since # 0
                       => c.date.local >= options.restriction.since
                  /\ options.restriction.sinceCommit # 0
                       => c.hash > options.restriction.sinceCommit
  IN  slice0(SelectSeq(log, keeps), options.limit)

\* git log --no-walk <hashes>  (buildGitArgsForHashes, 85-90): the named
\* commits, newest first
gitLogNoWalk(hashes) ==
  LET named(c) == includes(hashes, c.hash)
  IN  SelectSeq(log, named)

\* main: the branch taken and the commits printed
cliMain(options) ==
  LET params == toQueryParams(options)
      indexResult == IF canUseIndex(params, options) THEN loadIndexNow
                     ELSE NoResult
  IN  IF indexResult.ok /\ ~indexResult.null
      THEN LET indexHashes ==
                 queryIndexForHashes(indexResult.index.body, params)
           IN  IF Len(indexHashes) > 0
               THEN [path |-> "index",
                     out |-> applyQueryFilters(gitLogNoWalk(indexHashes), params)]
               ELSE [path |-> "index-empty", out |-> <<>>]
      ELSE IF headOf(log) = 0
      THEN [path |-> "error", out |-> <<>>]
      ELSE [path |-> "gitlog",
            out |-> applyQueryFilters(gitLog(options), params)]

\* git commit, changing a file under "p" or not
CliCommit ==
  /\ cOp = "none"
  /\ CommitFrom(CliShapes, MaxCliCommits)
  /\ \E t \in BOOLEAN :
       touched' = IF t THEN touched \cup {Len(log) + 1} ELSE touched
  /\ UNCHANGED <<claudeVars, hookVars, cfgVars, retroVars, buildVars, rlmVars, llmVars, ctxVars, matchVars, queryVars, repoVars, writerVars,
                 readerVars, cOp, cOptions, cPath, cOut>>

\* the index build command, start to end  (part_004 550-593)
CliBuildIndex ==
  /\ cOp = "none"
  /\ headOf(log) # 0
  /\ file' = IndexFile(headOf(log), 1, buildIndex(log, headOf(log)))
  /\ file' # file
  /\ UNCHANGED <<claudeVars, hookVars, cfgVars, retroVars, buildVars, rlmVars, llmVars, ctxVars, matchVars, log, queryVars, gitState, tip,
                 writerVars, readerVars, cliVars>>

\* one run of the parse CLI
CliRun ==
  /\ cOp = "none"
  /\ \E options \in CliOptionSet :
       /\ cOptions' = options
       /\ cPath' = cliMain(options).path
       /\ cOut' = cliMain(options).out
  /\ cOp' = "run"
  /\ UNCHANGED <<claudeVars, hookVars, cfgVars, retroVars, buildVars, rlmVars, llmVars, ctxVars, matchVars, log, queryVars, repoVars, writerVars,
                 readerVars, touched>>

InitCli ==
  /\ MatchIdle
  /\ log = <<>>
  /\ QueryIdle
  /\ RepoIdle
  /\ WriterIdle
  /\ ReaderIdle
  /\ CliIdle
  /\ CtxIdle
  /\ LlmIdle
  /\ RlmIdle
  /\ BuildIdle
  /\ RetroIdle
  /\ CfgIdle
  /\ HooksIdle
  /\ ClaudeIdle

NextCli ==
  \/ CliCommit
  \/ CliBuildIndex
  \/ CliRun

SpecCli == InitCli /\ [][NextCli]_vars

(***************************************************************************)
(* The context hook over a history: extractFromIndex, extractFromGitLog,   *)
(* formatContext and main  (git-memory-context.ts 78-235)                  *)
(*                                                                         *)
(* A date is the author date as git prints it with %aI: the wall-clock     *)
(* time local in the zone offset hours ahead of UTC.  A commit of the      *)
(* history is structured (parseCommitBlock accepts it) or not; git lists   *)
(* the history in its own order, which the author dates need not follow.   *)
(* The session line of the block is left out.                              *)
(***************************************************************************)
CtxDates ==
  { [local |-> 1, offset |-> 0],
    [local |-> 2, offset |-> 0],
    [local |-> 2, offset |-> 2] }

\* a structured commit with n decided-against texts, each its own
mkDated(h, date, n) ==
  [hash |-> h, structured |-> TRUE, date |-> date, intent |-> "A",
   scope |-> <<>>, session |-> "null",
   decidedAgainst |-> [i \in 1..n |-> <<h, i>>]]

\* a commit parseCommitBlock rejects
mkPlain(h) ==
  [hash |-> h, structured |-> FALSE, date |-> [local |-> 1, offset |-> 0],
   intent |-> "null", scope |-> <<>>, session |-> "null",
   decidedAgainst |-> <<>>]

CtxCommits(h) ==
  {mkPlain(h)} \cup {mkDated(h, d, n) : d \in CtxDates, n \in 0..2}

\* blocks.map(parseCommitBlock).filter(r => r.ok)
parsedOf(commits) ==
  LET isOk(c) == c.structured
  IN  SelectSeq(commits, isOk)

\* a.localeCompare(b) on two %aI strings: the digits of the local time
\* decide, then those of the offset
localeCompare(a, b) ==
  IF a.local # b.local THEN (IF a.local < b.local THEN -1 ELSE 1)
  ELSE IF a.offset # b.offset THEN (IF a.offset < b.offset THEN -1 ELSE 1)
  ELSE 0

\* Array.prototype.sort with (a, b) => b.date.localeCompare(a.date); the
\* sort is stable
RECURSIVE insertByDate(_, _)
insertByDate(sorted, c) ==
  IF sorted = <<>> THEN <<c>>
  ELSE IF localeCompare(Head(sorted).date, c.date) < 0
  THEN <<c>> \o sorted
  ELSE <<Head(sorted)>> \o insertByDate(Tail(sorted), c)

RECURSIVE sortByDateDesc(_)
sortByDateDesc(commits) ==
  IF commits = <<>> THEN <<>>
  ELSE insertByDate(sortByDateDesc(SubSeq(commits, 1, Len(commits) - 1)),
                    commits[Len(commits)])

\* Object.values(index.commits)
values(obj) == [i \in 1..Len(obj) |-> obj[i].v]

\* recentCommits entries
toRecent(commits) ==
  [i \in 1..Len(commits) |-> [hash |-> commits[i].hash, scope |-> commits[i].scope]]

\* the inner loop over commit.decidedAgainst
RECURSIVE pushTexts_NoCap(_, _, _)
pushTexts_NoCap(decisions, scope, texts) ==
  IF texts = <<>> THEN decisions
  ELSE pushTexts_NoCap(Append(decisions, [scope |-> scope, text |-> Head(texts)]),
                       scope, Tail(texts))

RECURSIVE pushTexts(_, _, _)
pushTexts(decisions, scope, texts) ==
  IF texts = <<>> \/ Len(decisions) >= MAX_DECISIONS THEN decisions
  ELSE pushTexts(Append(decisions, [scope |-> scope, text |-> Head(texts)]),
                 scope, Tail(texts))

\* the loop over index.withDecidedAgainst (a hash without a commit is
\* skipped)
RECURSIVE decisionsOfHashes(_, _, _)
decisionsOfHashes(decisions, hashes, commits) ==
  IF hashes = <<>> \/ Len(decisions) >= MAX_DECISIONS THEN decisions
  ELSE IF ~hasKey(commits, Head(hashes))
  THEN decisionsOfHashes(decisions, Tail(hashes), commits)
  ELSE LET commit == CHOOSE e \in {commits[j] : j \in 1..Len(commits)} : e.k = Head(hashes)
       IN  decisionsOfHashes(
             pushTexts(decisions, commit.v.scope, commit.v.decidedAgainst),
             Tail(hashes), commits)

\* the loop over the parsed commits of the fallback
RECURSIVE decisionsOfCommits(_, _)
decisionsOfCommits(decisions, commits) ==
  IF commits = <<>> \/ Len(decisions) >= MAX_DECISIONS THEN decisions
  ELSE decisionsOfCommits(
         pushTexts(decisions, Head(commits).scope, Head(commits).decidedAgainst),
         Tail(commits))

\* extractFromIndex  (78-114)
extractFromIndex(index) ==
  [recentCommits |->
     toRecent(slice0(sortByDateDesc(values(index.commits)), MAX_RECENT_COMMITS)),
   decisions |->
     decisionsOfHashes(<<>>, index.withDecidedAgainst, index.commits)]

\* extractFromGitLog  (120-160), given that git log -10 succeeded
extractFromGitLog ==
  LET parsed == parsedOf(slice0(log, MAX_RECENT_COMMITS))
  IN  [recentCommits |-> toRecent(parsed),
       decisions |-> decisionsOfCommits(<<>>, parsed)]

\* formatContext  (166-201): no recent commit gives the empty string, which
\* main does not print; the block is the opening tag, the lines and the
\* closing tag
formatContext(data) ==
  IF Len(data.recentCommits) = 0 THEN <<>>
  ELSE <<"<git-memory-context", ">", "lines", "</git-memory-context>">>

\* parseContextBlock  (benchmark.ts 137-145): the first match of
\* /<git-memory-context mode="([^"]+)">[\s\S]*?<\/git-memory-context>/
parseContextBlock(stdout) ==
  LET matchesAt(i) ==
        /\ i + 5 <= Len(stdout)
        /\ stdout[i] = "<git-memory-context"
        /\ stdout[i + 1] = " mode=\""
        /\ stdout[i + 2] \notin {"", "\"", ">"}
        /\ stdout[i + 3] = "\""
        /\ stdout[i + 4] = ">"
        /\ \E j \in (i + 5)..Len(stdout) : stdout[j] = "</git-memory-context>"
      starts == {i \in 1..Len(stdout) : matchesAt(i)}
  IN  IF starts = {} THEN [mode |-> "null", block |-> "null"]
      ELSE LET i == CHOOSE k \in starts : \A m \in starts : k <= m
           IN  [mode |-> stdout[i + 2], block |-> "matched"]

\* git commit
CtxCommit ==
  /\ ctxOp = "none"
  /\ Len(log) < MaxCtxCommits
  /\ \E c \in CtxCommits(Len(log) + 1) : log' = <<c>> \o log
  /\ UNCHANGED <<claudeVars, hookVars, cfgVars, retroVars, buildVars, rlmVars, llmVars, matchVars, queryVars, repoVars, writerVars, readerVars,
                 cliVars, ctxVars>>

\* the index build command, start to end
CtxBuildIndex ==
  /\ ctxOp = "none"
  /\ headOf(log) # 0
  /\ file' = IndexFile(headOf(log), 1, buildIndex(parsedOf(log), headOf(log)))
  /\ file' # file
  /\ UNCHANGED <<claudeVars, hookVars, cfgVars, retroVars, buildVars, rlmVars, llmVars, matchVars, log, queryVars, gitState, tip, writerVars,
                 readerVars, cliVars, ctxVars>>

\* main  (207-235) with nobody else writing
CtxHook ==
  /\ ctxOp = "none"
  /\ LET indexResult == loadIndexNow IN
       IF indexResult.ok /\ ~indexResult.null
       THEN LET data == extractFromIndex(indexResult.index.body) IN
              /\ ctxSource' = "index"
              /\ ctxRecent' = data.recentCommits
              /\ ctxDecisions' = data.decisions
              /\ ctxOut' = formatContext(data)
       ELSE IF headOf(log) # 0
       THEN LET data == extractFromGitLog IN
              /\ ctxSource' = "gitlog"
              /\ ctxRecent' = data.recentCommits
              /\ ctxDecisions' = data.decisions
              /\ ctxOut' = formatContext(data)
       ELSE /\ ctxSource' = "none"
            /\ ctxRecent' = <<>>
            /\ ctxDecisions' = <<>>
            /\ ctxOut' = <<>>
  /\ ctxOp' = "run"
  /\ UNCHANGED <<claudeVars, hookVars, cfgVars, retroVars, buildVars, rlmVars, llmVars, matchVars, log, queryVars, repoVars, writerVars, readerVars,
                 cliVars>>

InitRecency ==
  /\ MatchIdle
  /\ log = <<>>
  /\ QueryIdle
  /\ RepoIdle
  /\ WriterIdle
  /\ ReaderIdle
  /\ CliIdle
  /\ CtxIdle
  /\ LlmIdle
  /\ RlmIdle
  /\ BuildIdle
  /\ RetroIdle
  /\ CfgIdle
  /\ HooksIdle
  /\ ClaudeIdle

NextRecency ==
  \/ CtxCommit
  \/ CtxBuildIndex
  \/ CtxHook

SpecRecency == InitRecency /\ [][NextRecency]_vars

(***************************************************************************)
(* callLocalLlm  (part_003 68-121)                                         *)
(*                                                                         *)
(* Each await of the code is a position; the endpoint decides whether and  *)
(* when the headers and the body arrive.  The timer fires when timeoutMs   *)
(* has passed, unless it was cleared.                                      *)
(***************************************************************************)
\* how long the clock is followed
MaxNow == MaxTimeout + 2

LlmOk == [ok |-> TRUE, value |-> "content"]

LlmFail(message) == [ok |-> FALSE, error |-> message]

\* the call: the timer is set and the request sent  (part_003 84-93)
LlmCall ==
  /\ lPc = "idle"
  /\ \E t \in 1..MaxTimeout : lTimeoutMs' = t
  /\ lTimer' = "armed"
  /\ lAttempts' = lAttempts + 1
  /\ lPc' = "fetch"
  /\ UNCHANGED <<claudeVars, hookVars, cfgVars, retroVars, buildVars, rlmVars, matchVars, log, queryVars, repoVars, writerVars,
                 readerVars, cliVars, ctxVars, lNow, lResult>>

\* time passes while the call is pending; an armed timer fires on time
LlmTick ==
  /\ lPc \in {"fetch", "json", "text"}
  /\ lNow < MaxNow
  /\ ~(lTimer = "armed" /\ lNow = lTimeoutMs)
  /\ lNow' = lNow + 1
  /\ UNCHANGED <<claudeVars, hookVars, cfgVars, retroVars, buildVars, rlmVars, matchVars, log, queryVars, repoVars, writerVars,
                 readerVars, cliVars, ctxVars, lPc, lTimeoutMs, lTimer, lAttempts, lResult>>

\* controller.abort(): the pending fetch rejects with AbortError
\* (part_003 85, 109-116)
LlmTimerFires ==
  /\ lTimer = "armed"
  /\ lNow = lTimeoutMs
  /\ lPc = "fetch"
  /\ lTimer' = "cleared"
  /\ lResult' = LlmFail("timed out")
  /\ lPc' = "done"
  /\ UNCHANGED <<claudeVars, hookVars, cfgVars, retroVars, buildVars, rlmVars, matchVars, log, queryVars, repoVars, writerVars,
                 readerVars, cliVars, ctxVars, lNow, lTimeoutMs, lAttempts>>

\* fetch resolves with the response head; the timer is cleared  (95)
LlmHeadersArrive ==
  /\ lPc = "fetch"
  /\ lTimer' = "cleared"
  /\ \E responseOk \in BOOLEAN : lPc' = IF responseOk THEN "json" ELSE "text"
  /\ UNCHANGED <<claudeVars, hookVars, cfgVars, retroVars, buildVars, rlmVars, matchVars, log, queryVars, repoVars, writerVars,
                 readerVars, cliVars, ctxVars, lNow, lTimeoutMs, lAttempts, lResult>>

\* fetch rejects: connection refused, network error  (109-119)
LlmFetchFails ==
  /\ lPc = "fetch"
  /\ lTimer' = "cleared"
  /\ lResult' = LlmFail("connection failed")
  /\ lPc' = "done"
  /\ UNCHANGED <<claudeVars, hookVars, cfgVars, retroVars, buildVars, rlmVars, matchVars, log, queryVars, repoVars, writerVars,
                 readerVars, cliVars, ctxVars, lNow, lTimeoutMs, lAttempts>>

\* response.json() or response.text() settles  (97-108): a body with
\* content, one without, one that is not JSON, or a broken connection
LlmBodySettles ==
  /\ lPc \in {"json", "text"}
  /\ \E body \in {"content", "no content", "not json", "broken"} :
       lResult' = IF lPc = "text" THEN LlmFail("request failed")
                  ELSE IF body = "content" THEN LlmOk
                  ELSE IF body = "no content" THEN LlmFail("no content")
                  ELSE LlmFail("connection failed")
  /\ lPc' = "done"
  /\ UNCHANGED <<claudeVars, hookVars, cfgVars, retroVars, buildVars, rlmVars, matchVars, log, queryVars, repoVars, writerVars,
                 readerVars, cliVars, ctxVars, lNow, lTimeoutMs, lTimer, lAttempts>>

InitLlm ==
  /\ MatchIdle
  /\ log = <<>>
  /\ QueryIdle
  /\ RepoIdle
  /\ WriterIdle
  /\ ReaderIdle
  /\ CliIdle
  /\ CtxIdle
  /\ LlmIdle
  /\ RlmIdle
  /\ BuildIdle
  /\ RetroIdle
  /\ CfgIdle
  /\ HooksIdle
  /\ ClaudeIdle

NextLlm ==
  \/ LlmCall
  \/ LlmTick
  \/ LlmTimerFires
  \/ LlmHeadersArrive
  \/ LlmFetchFails
  \/ LlmBodySettles

SpecLlm == InitLlm /\ [][NextLlm]_vars

(***************************************************************************)
(* The parsers of delegated responses  (rlm-subcalls.ts 20-53, 117-147,    *)
(* 204-233)                                                                *)
(*                                                                         *)
(* A response text is a list of tokens: "fence-json" and "fence" (three    *)
(* backquotes with and without json), the marker "/think", "prose" (text   *)
(* without braces that is not JSON),                                       *)
(* and serialised JSON values.  A JSON value is a record with its type t:  *)
(* "null", "str", "num", "arr" (items) or "obj" (its fields; a field the   *)
(* object lacks reads as undefined).                                       *)
(***************************************************************************)
JNull == [t |-> "null"]

FenceJson == [t |-> "fence-json"]

Fence == [t |-> "fence"]

Think == [t |-> "/think"]

Prose == [t |-> "prose"]

JUndefined == [t |-> "undefined"]

JStr(v) == [t |-> "str", v |-> v]

JNum == [t |-> "num"]

JArr(items) == [t |-> "arr", items |-> items]

\* an object of a follow-up response or of an analysis response
JObj(queries, scopes, intents, keywords) ==
  [t |-> "obj", queries |-> queries, scopes |-> scopes, intents |-> intents,
   keywords |-> keywords]

\* one element of the queries array
JQuery(scope, intent, decidedAgainst) ==
  [t |-> "obj", scope |-> scope, intent |-> intent,
   decidedAgainst |-> decidedAgainst]

\* INTENT_TYPES  (install-hooks.ts 678-687)
INTENT_TYPES == {"A", "B", "C"}

\* a scope no commit carries
ScopeBogus == <<".">>

QueryItems ==
  { JQuery(JStr(ScopeA), JUndefined, JStr(<<"a">>)),
    JQuery(JStr(ScopeBogus), JUndefined, JUndefined),
    JQuery(JStr(ScopeBogus), JStr("A"), JNull),
    JQuery(JNull, JStr("not-real"), JNull),
    JNull }

QueryArrays ==
  UNION {[1..n -> QueryItems] : n \in 0..MaxQueries}

\* what a response carries besides a queries array
OtherPayloads ==
  {JObj(JStr("x"), JUndefined, JUndefined, JUndefined)}
  \cup {JObj(JUndefined, sc, it, kw) :
          sc \in {JUndefined, JArr(<<>>), JArr(<<JStr(ScopeA), JStr(ScopeBogus), JNum>>)},
          it \in {JUndefined, JArr(<<JStr("A"), JStr("not-real"), JStr("B"), JStr("C")>>)},
          kw \in {JUndefined, JStr("k"), JArr(<<JStr("k"), JStr(""), JNull>>)}}
  \cup {JArr(<<JObj(JArr(<<JQuery(JStr(ScopeA), JUndefined, JUndefined)>>),
                    JArr(<<JStr(ScopeA)>>), JUndefined, JUndefined)>>),
        JArr(<<JNum, JNum>>), JNum, JNull}

QueryPayloads(arrays) ==
  {JObj(JArr(q), JUndefined, JUndefined, JUndefined) : q \in arrays}

\* the response texts: every payload bare, and the short ones between
\* fences, markers and prose
Texts ==
  {<<v>> : v \in QueryPayloads(QueryArrays)}
  \cup {pre \o body \o post :
          pre \in {<<>>, <<FenceJson>>, <<Fence>>, <<Prose>>},
          body \in {<<>>, <<Prose>>}
                   \cup {<<v>> : v \in OtherPayloads
                                       \cup QueryPayloads({q \in QueryArrays : Len(q) <= 1})},
          post \in {<<>>, <<Fence>>, <<Think>>, <<Fence, Think>>, <<Prose>>}}

IsFence(tok) == tok.t \in {"fence-json", "fence", "/think", "prose"}

dropLast(seq) == SubSeq(seq, 1, Len(seq) - 1)

\* normalizeJsonPayload  (20-27): the four replacements in their order
normalizeJsonPayload(text) ==
  LET t1 == IF text # <<>> /\ Head(text) = FenceJson THEN Tail(text) ELSE text
      t2 == IF t1 # <<>> /\ Head(t1) = Fence THEN Tail(t1) ELSE t1
      t3 == IF t2 # <<>> /\ t2[Len(t2)] = Fence THEN dropLast(t2) ELSE t2
      t4 == IF t3 # <<>> /\ t3[Len(t3)] = Think THEN dropLast(t3) ELSE t3
  IN  t4

\* tryParse  (31-41): JSON.parse accepts one JSON value; only an object
\* that is no array is kept
tryParse(candidate) ==
  IF Len(candidate) = 1 /\ ~IsFence(candidate[1]) /\ candidate[1].t = "obj"
  THEN candidate[1]
  ELSE JNull

\* the objects serialised inside a value
objectsIn(v) ==
  IF v.t = "obj" THEN <<v>>
  ELSE IF v.t = "arr" THEN LET isObj(x) == x.t = "obj" IN SelectSeq(v.items, isObj)
  ELSE <<>>

\* normalized.slice(start, end + 1) from the first "{" to the last "}"
\* (46-50): one object when the braces of the text are those of one object
braceSlice(normalized) ==
  LET withBraces == {i \in 1..Len(normalized) :
                       ~IsFence(normalized[i]) /\ objectsIn(normalized[i]) # <<>>}
  IN  IF withBraces = {} THEN <<>>
      ELSE LET i == CHOOSE k \in withBraces : \A m \in withBraces : k <= m
               j == CHOOSE k \in withBraces : \A m \in withBraces : k >= m
           IN  IF i = j /\ Len(objectsIn(normalized[i])) = 1
               THEN objectsIn(normalized[i])
               ELSE <<Prose>>

\* parseJsonObject  (29-53)
parseJsonObject(text) ==
  LET normalized == normalizeJsonPayload(text)
      direct == tryParse(normalized)
  IN  IF direct # JNull THEN direct
      ELSE IF braceSlice(normalized) # <<>> THEN tryParse(braceSlice(normalized))
      ELSE JNull

\* the items of a field when it is an array, else []
arrayOr(v) == IF v.t = "arr" THEN v.items ELSE <<>>

strings(items) == [i \in 1..Len(items) |-> items[i].v]

\* parseAnalyzeResponse  (117-147)
parseAnalyzeResponse(text, validScopes) ==
  LET data == parseJsonObject(text)
      okScope(x) == x.t = "str" /\ x.v \in validScopes
      okIntent(x) == x.t = "str" /\ x.v \in INTENT_TYPES
      okKeyword(x) == x.t = "str" /\ x.v # ""
  IN  IF data = JNull THEN EMPTY_SIGNALS
      ELSE [scopes |-> slice0(strings(SelectSeq(arrayOr(data.scopes), okScope)), 5),
            intents |-> slice0(strings(SelectSeq(arrayOr(data.intents), okIntent)), 2),
            keywords |-> slice0(strings(SelectSeq(arrayOr(data.keywords), okKeyword)), 5)]

\* q.scope, q.intent, q.decidedAgainst of an element that is no object
field(q, name) ==
  IF q.t # "obj" THEN JUndefined
  ELSE IF name = "scope" THEN q.scope
  ELSE IF name = "intent" THEN q.intent
  ELSE q.decidedAgainst

\* the mapping of one element  (215-226)
toFollowUp_AnyScope(q, validScopes) ==
  [scope |-> IF field(q, "scope").t = "str"
             THEN <<field(q, "scope").v>> ELSE <<>>,
   intent |-> IF field(q, "intent").t = "str" /\ field(q, "intent").v \in INTENT_TYPES
              THEN field(q, "intent").v ELSE "null",
   decidedAgainst |-> IF field(q, "decidedAgainst").t = "str"
                      THEN <<field(q, "decidedAgainst").v>> ELSE <<>>]

toFollowUp(q, validScopes) ==
  [scope |-> IF field(q, "scope").t = "str" /\ field(q, "scope").v \in validScopes
             THEN <<field(q, "scope").v>> ELSE <<>>,
   intent |-> IF field(q, "intent").t = "str" /\ field(q, "intent").v \in INTENT_TYPES
              THEN field(q, "intent").v ELSE "null",
   decidedAgainst |-> IF field(q, "decidedAgainst").t = "str"
                      THEN <<field(q, "decidedAgainst").v>> ELSE <<>>]

\* a returned value, or an exception that left the function
Returns(value) == [threw |-> FALSE, value |-> value]

Throws == [threw |-> TRUE, value |-> <<>>]

\* the body of the try block of parseFollowUpResponse  (209-229): reading
\* a property of a null element throws a TypeError
tryFollowUp_NoSlice(text, validScopes) ==
  LET data == parseJsonObject(text)
      rawQueries == IF data = JNull THEN <<>> ELSE arrayOr(data.queries)
      mapped == [i \in 1..Len(rawQueries) |-> toFollowUp(rawQueries[i], validScopes)]
      actionable(q) == q.scope # <<>> \/ q.intent # "null" \/ q.decidedAgainst # <<>>
  IN  IF data = JNull THEN Returns(<<>>)
      ELSE IF \E i \in 1..Len(rawQueries) : rawQueries[i].t = "null" THEN Throws
      ELSE Returns(SelectSeq(mapped, actionable))

tryFollowUp(text, validScopes) ==
  LET data == parseJsonObject(text)
      rawQueries == IF data = JNull THEN <<>> ELSE arrayOr(data.queries)
      first == slice0(rawQueries, 2)
      mapped == [i \in 1..Len(first) |-> toFollowUp(first[i], validScopes)]
      actionable(q) == q.scope # <<>> \/ q.intent # "null" \/ q.decidedAgainst # <<>>
  IN  IF data = JNull THEN Returns(<<>>)
      ELSE IF \E i \in 1..Len(first) : first[i].t = "null" THEN Throws
      ELSE Returns(SelectSeq(mapped, actionable))

\* parseFollowUpResponse  (204-233): the catch returns []
parseFollowUpResponse_NoCatch(text, validScopes) == tryFollowUp(text, validScopes)

parseFollowUpResponse(text, validScopes) ==
  IF tryFollowUp(text, validScopes).threw THEN Returns(<<>>)
  ELSE tryFollowUp(text, validScopes)

(***************************************************************************)
(* The follow-up step of the pipeline.  Its code is not part of the        *)
(* sources at hand; it is taken from the description: each follow-up       *)
(* query is resolved as a QueryParams-shaped query against the index and   *)
(* its new hashes are merged into the candidates.                          *)
(***************************************************************************)
\* the histories the responses are resolved against
RlmLogs ==
  { <<>>,
    <<mkCommit(2, [intent |-> "A", scope |-> <<ScopeAsA>>, session |-> "null",
                   decidedAgainst |-> <<>>]),
      mkCommit(1, [intent |-> "B", scope |-> <<ScopeA>>, session |-> "null",
                   decidedAgainst |-> << <<"a">> >>])>> }

\* new Set(scopeKeys)  (rlm-subcalls.ts 156): the scope keys of the index
validScopesOf(index) == {index.byScope[i].k : i \in 1..Len(index.byScope)}

followUpParams(q) ==
  [intents |-> IF q.intent = "null" THEN <<>> ELSE <<q.intent>>,
   scope |-> q.scope, session |-> "null", decisionsOnly |-> FALSE,
   decidedAgainst |-> q.decidedAgainst, limit |-> Len(log) + 1]

\* the hashes one follow-up query resolves to
followUpHashes(q) ==
  LET found == queryIndexForHashes(buildIndex(log, headOf(log)), followUpParams(q))
  IN  {found[i] : i \in 1..Len(found)}

RlmAnalyze ==
  /\ fOp = "none"
  /\ fSignals' = parseAnalyzeResponse(fText,
                   validScopesOf(buildIndex(log, headOf(log))))
  /\ fOp' = "analyze"
  /\ UNCHANGED <<claudeVars, hookVars, cfgVars, retroVars, buildVars, matchVars, log, queryVars, repoVars, writerVars, readerVars,
                 cliVars, ctxVars, llmVars, fText, fQueries, fBase, fMerged>>

RlmFollowUp ==
  /\ fOp = "none"
  /\ \E r \in {parseFollowUpResponse(fText,
                   validScopesOf(buildIndex(log, headOf(log))))} :
       /\ fQueries' = r.value
       /\ fMerged' = fBase \cup
                     UNION {followUpHashes(r.value[i]) : i \in 1..Len(r.value)}
       /\ fOp' = IF r.threw THEN "threw" ELSE "followup"
  /\ UNCHANGED <<claudeVars, hookVars, cfgVars, retroVars, buildVars, matchVars, log, queryVars, repoVars, writerVars, readerVars,
                 cliVars, ctxVars, llmVars, fText, fSignals, fBase>>

InitRlm ==
  /\ MatchIdle
  /\ log \in RlmLogs
  /\ QueryIdle
  /\ RepoIdle
  /\ WriterIdle
  /\ ReaderIdle
  /\ CliIdle
  /\ CtxIdle
  /\ LlmIdle
  /\ BuildIdle
  /\ RetroIdle
  /\ CfgIdle
  /\ HooksIdle
  /\ ClaudeIdle
  /\ fText \in Texts
  /\ fOp = "none"
  /\ fSignals = EMPTY_SIGNALS
  /\ fQueries = <<>>
  /\ fBase \in {{}, {headOf(log)} \ {0}}
  /\ fMerged = fBase

NextRlm ==
  \/ RlmAnalyze
  \/ RlmFollowUp

SpecRlm == InitRlm /\ [][NextRlm]_vars

(***************************************************************************)
(* buildIndex over the raw log  (part_004 456-525)                         *)
(*                                                                         *)
(* A build reads HEAD, then the log, in two git calls; commits can land    *)
(* between them.  A block is a commit as git log prints it; structured     *)
(* tells whether parseCommitBlock accepts it.  byScope and bySession are   *)
(* plain objects ({}), so a key that names a property every object         *)
(* inherits finds that property: it is truthy and has no push.             *)
(***************************************************************************)
\* a scope that names a property of Object.prototype
ScopeInherited == <<"constructor">>

\* the keys of a plain object that are there before any is set, as scopes
\* and as session ids
InheritedScopes == {ScopeInherited}

InheritedSessions == {"constructor"}

BuildShapes ==
  { [intent |-> "A",    scope |-> <<ScopeA>>,           session |-> "s1",
     decidedAgainst |-> <<>>],
    [intent |-> "null", scope |-> <<ScopeA, ScopeAsA>>, session |-> "null",
     decidedAgainst |-> << <<"a">> >>],
    [intent |-> "B",    scope |-> <<ScopeInherited>>,   session |-> "null",
     decidedAgainst |-> <<>>] }

mkBlock(h, structured, shape) ==
  [hash |-> h, structured |-> structured, date |-> [local |-> h, offset |-> 0],
   intent |-> shape.intent, scope |-> shape.scope,
   session |-> shape.session, decidedAgainst |-> shape.decidedAgainst]

\* byScope[scope].push and bySession[session].push on an inherited
\* property  (part_004 494-506): TypeError, push is not a function
pushThrows(commits) ==
  \E i \in 1..Len(commits) :
    \/ \E j \in 1..Len(commits[i].scope) :
         commits[i].scope[j] \in InheritedScopes
    \/ commits[i].session \in InheritedSessions

NoIndex == [version |-> 0]

\* how a call of buildIndex ended: "ok" with the index, "error"
\* (Result.fail of a git call) or "throws"
Outcome(kind, index, blocks, headCommit, now) ==
  [kind |-> kind, index |-> index, log |-> blocks, head |-> headCommit,
   at |-> now]

\* the TrailerIndex of lines 512-522: the maps of the loop, and generated
\* from the clock
buildIndexAt_NoStamp(blocks, headCommit, now) ==
  LET ix == buildIndex(parsedOf(blocks), headCommit)
  IN  [version |-> ix.version, generated |-> 0,
       headCommit |-> ix.headCommit, commitCount |-> ix.commitCount,
       byIntent |-> ix.byIntent, byScope |-> ix.byScope,
       bySession |-> ix.bySession,
       withDecidedAgainst |-> ix.withDecidedAgainst, commits |-> ix.commits]

buildIndexAt(blocks, headCommit, now) ==
  LET ix == buildIndex(parsedOf(blocks), headCommit)
  IN  [version |-> ix.version, generated |-> now,
       headCommit |-> ix.headCommit, commitCount |-> ix.commitCount,
       byIntent |-> ix.byIntent, byScope |-> ix.byScope,
       bySession |-> ix.bySession,
       withDecidedAgainst |-> ix.withDecidedAgainst, commits |-> ix.commits]

\* git commit
BuildCommit ==
  /\ Len(bLog) < MaxBuildCommits
  /\ \E shape \in BuildShapes, structured \in BOOLEAN :
       bLog' = <<mkBlock(Len(bLog) + 1, structured, shape)>> \o bLog
  /\ UNCHANGED <<claudeVars, hookVars, cfgVars, retroVars, matchVars, log, queryVars, repoVars, writerVars, readerVars,
                 cliVars, ctxVars, llmVars, rlmVars, bNow, bPc, bHead, bRuns>>

BuildTick ==
  /\ bNow < MaxClock
  /\ bNow' = bNow + 1
  /\ UNCHANGED <<claudeVars, hookVars, cfgVars, retroVars, matchVars, log, queryVars, repoVars, writerVars, readerVars,
                 cliVars, ctxVars, llmVars, rlmVars, bLog, bPc, bHead, bRuns>>

\* getHeadCommit  (457-458): with no commit git rev-parse HEAD fails
BuildReadHead ==
  /\ bPc = "idle"
  /\ Len(bRuns) < 2
  /\ IF bLog = <<>>
     THEN /\ bRuns' = Append(bRuns, Outcome("error", NoIndex, bLog, 0, bNow))
          /\ UNCHANGED <<claudeVars, hookVars, cfgVars, retroVars, bPc, bHead>>
     ELSE /\ bHead' = headOf(bLog)
          /\ bPc' = "log"
          /\ UNCHANGED bRuns
  /\ UNCHANGED <<claudeVars, hookVars, cfgVars, retroVars, matchVars, log, queryVars, repoVars, writerVars, readerVars,
                 cliVars, ctxVars, llmVars, rlmVars, bLog, bNow>>

\* git log and everything after it  (461-524)
BuildReadLog ==
  /\ bPc = "log"
  /\ bRuns' = Append(bRuns,
       IF pushThrows(parsedOf(bLog))
       THEN Outcome("throws", NoIndex, bLog, bHead, bNow)
       ELSE Outcome("ok", buildIndexAt(bLog, bHead, bNow), bLog, bHead, bNow))
  /\ bPc' = "idle"
  /\ UNCHANGED <<claudeVars, hookVars, cfgVars, retroVars, matchVars, log, queryVars, repoVars, writerVars, readerVars,
                 cliVars, ctxVars, llmVars, rlmVars, bLog, bNow, bHead>>

InitBuild ==
  /\ MatchIdle
  /\ log = <<>>
  /\ QueryIdle
  /\ RepoIdle
  /\ WriterIdle
  /\ ReaderIdle
  /\ CliIdle
  /\ CtxIdle
  /\ LlmIdle
  /\ RlmIdle
  /\ BuildIdle
  /\ RetroIdle
  /\ CfgIdle
  /\ HooksIdle
  /\ ClaudeIdle

NextBuild ==
  \/ BuildCommit
  \/ BuildTick
  \/ BuildReadHead
  \/ BuildReadLog

SpecBuild == InitBuild /\ [][NextBuild]_vars

(***************************************************************************)
(* The retrofit utility: processCommit, isEligible, applyToHistory, main   *)
(* (git-memory-context.ts 487-578, 687-689, 691-755, 762-876) and its      *)
(* cache file (lib/cache.ts).                                              *)
(*                                                                         *)
(* The extracts are the commits 1..limit of the history.  A message is ""  *)
(* (callClaude trims the text of the response, so a blank text is the      *)
(* empty message) or one of two texts.  The validator is not part of the   *)
(* sources at hand; it is taken as a function of the message that gives    *)
(* its diagnostics: a warning for "warn", an error for "bad" and for the   *)
(* empty message (a message without diagnostics is treated as "warn" is).  *)
(* A cache object maps every hash to its message or to "undefined".  Each  *)
(* await of the code is a position, and so is the file between its         *)
(* truncation and its content by Deno.writeTextFileSync.  The options      *)
(* --apply and --force are read once, after the report, and drawn there.   *)
(***************************************************************************)
RetroHashes == 1..MaxRetroCommits

Messages == {"", "warn", "bad"}

validate(message) ==
  IF message = "warn" THEN << [severity |-> "warning"] >>
  ELSE << [severity |-> "error"] >>

hasErrors(diagnostics) ==
  \E i \in 1..Len(diagnostics) : diagnostics[i].severity = "error"

\* JavaScript truthiness of cache[hash]
truthy(s) == s # "undefined" /\ s # ""

emptyCache == [h \in RetroHashes |-> "undefined"]

\* lib/cache.ts 10-28: a missing file is the empty cache, a file that is
\* not a JSON object a failure
loadCache(f) ==
  IF f.state = "absent" THEN [ok |-> TRUE, value |-> emptyCache]
  ELSE IF f.state = "json" THEN [ok |-> TRUE, value |-> f.value]
  ELSE [ok |-> FALSE, value |-> emptyCache]

\* the file after lib/cache.ts 30-42 has written it
savedCache(cache) == [state |-> "json", value |-> cache]

cutFile == [state |-> "cut"]

CallResults ==
  {[ok |-> FALSE, value |-> "null"]} \cup {[ok |-> TRUE, value |-> m] : m \in Messages}

RetroResult(hash, generated, diagnostics, retried, cached, error) ==
  [hash |-> hash, generated |-> generated, diagnostics |-> diagnostics,
   retried |-> retried, cached |-> cached, error |-> error]

isEligible_AnyGenerated(result) == result.generated # "null"

isEligible(result) ==
  /\ result.generated # "null"
  /\ \A i \in 1..Len(result.diagnostics) : result.diagnostics[i].severity # "error"

eligibleOf(results) == SelectSeq(results, isEligible)

\* git filter-branch --msg-filter: the message of a commit is the content of
\* the file named by its hash if there is one, else the message it had
msgFilter(msgs, eligible) ==
  [h \in DOMAIN msgs |->
     IF \E i \in 1..Len(eligible) : eligible[i].hash = h
     THEN eligible[CHOOSE i \in 1..Len(eligible) :
                     /\ eligible[i].hash = h
                     /\ \A j \in (i + 1)..Len(eligible) : eligible[j].hash # h].generated
     ELSE msgs[h]]

\* main 808-846: the cache is loaded, a failure is a warning
TStart(resume, limit) ==
  /\ tPc = "off"
  /\ tRun < MaxRuns
  /\ tRun' = tRun + 1
  /\ tOpt' = [resume |-> resume, limit |-> limit]
  /\ \E cacheResult \in {loadCache(tFile)} :
       tCache' = IF cacheResult.ok THEN cacheResult.value ELSE emptyCache
  /\ tI' = 1
  /\ tResults' = <<>>
  /\ tCalls' = {}
  /\ tPc' = "loop"
  /\ UNCHANGED <<claudeVars, hookVars, cfgVars, buildVars, matchVars, log, queryVars, repoVars, writerVars, readerVars,
                 cliVars, ctxVars, llmVars, rlmVars,
                 tMsg, tFile, tFirst, tEarlier>>

\* processCommit 495-516: the cached message, or the first call
TProcess ==
  /\ tPc = "loop"
  /\ tI <= tOpt.limit
  /\ IF tOpt.resume /\ truthy(tCache[tI])
     THEN /\ tResults' = Append(tResults,
                 RetroResult(tI, tCache[tI], validate(tCache[tI]), FALSE, TRUE, "null"))
          /\ tPc' = "save"
          /\ UNCHANGED tCalls
     ELSE /\ tCalls' = tCalls \cup {tI}
          /\ tPc' = "first"
          /\ UNCHANGED tResults
  /\ UNCHANGED <<claudeVars, hookVars, cfgVars, buildVars, matchVars, log, queryVars, repoVars, writerVars, readerVars,
                 cliVars, ctxVars, llmVars, rlmVars,
                 tMsg, tFile, tCache, tI, tOpt, tFirst, tEarlier, tRun>>

\* processCommit 518-534, 570-578: the first call returns
TFirstReturns(firstResult) ==
  /\ tPc = "first"
  /\ IF ~firstResult.ok
     THEN /\ tResults' = Append(tResults,
                 RetroResult(tI, "null", <<>>, FALSE, FALSE, "first"))
          /\ tPc' = "save"
          /\ UNCHANGED <<claudeVars, hookVars, cfgVars, tCache, tFirst>>
     ELSE IF hasErrors(validate(firstResult.value))
     THEN /\ tFirst' = firstResult.value
          /\ tPc' = "retry"
          /\ UNCHANGED <<claudeVars, hookVars, cfgVars, tCache, tResults>>
     ELSE /\ tCache' = [tCache EXCEPT ![tI] = firstResult.value]
          /\ tResults' = Append(tResults,
                 RetroResult(tI, firstResult.value, validate(firstResult.value),
                             FALSE, FALSE, "null"))
          /\ tPc' = "save"
          /\ UNCHANGED tFirst
  /\ UNCHANGED <<claudeVars, hookVars, cfgVars, buildVars, matchVars, log, queryVars, repoVars, writerVars, readerVars,
                 cliVars, ctxVars, llmVars, rlmVars,
                 tMsg, tFile, tI, tOpt, tCalls, tEarlier, tRun>>

\* processCommit 536-567: the retry returns
TRetryReturns(retryResult) ==
  /\ tPc = "retry"
  /\ IF ~retryResult.ok
     THEN /\ tCache' = [tCache EXCEPT ![tI] = tFirst]
          /\ tResults' = Append(tResults,
                 RetroResult(tI, tFirst, validate(tFirst), TRUE, FALSE, "retry"))
     ELSE /\ tCache' = [tCache EXCEPT ![tI] = retryResult.value]
          /\ tResults' = Append(tResults,
                 RetroResult(tI, retryResult.value, validate(retryResult.value),
                             TRUE, FALSE, "null"))
  /\ tFirst' = "null"
  /\ tPc' = "save"
  /\ UNCHANGED <<claudeVars, hookVars, cfgVars, buildVars, matchVars, log, queryVars, repoVars, writerVars, readerVars,
                 cliVars, ctxVars, llmVars, rlmVars,
                 tMsg, tFile, tI, tOpt, tCalls, tEarlier, tRun>>

\* main 841-845 after saveCache: the delay, or the next extract
afterSave == 
  IF ~tResults[Len(tResults)].cached /\ tI < tOpt.limit THEN "delay" ELSE "loop"

\* saveCache (lib/cache.ts 35): the file is opened and truncated
TSaveOpen ==
  /\ tPc = "save"
  /\ tFile' = cutFile
  /\ tPc' = "write"
  /\ UNCHANGED <<claudeVars, hookVars, cfgVars, buildVars, matchVars, log, queryVars, repoVars, writerVars, readerVars,
                 cliVars, ctxVars, llmVars, rlmVars,
                 tMsg, tCache, tI, tOpt, tFirst, tResults, tCalls, tEarlier, tRun>>

\* saveCache: the content is written
TSaveWrite ==
  /\ tPc = "write"
  /\ tFile' = savedCache(tCache)
  /\ tPc' = afterSave
  /\ tI' = IF afterSave = "loop" THEN tI + 1 ELSE tI
  /\ UNCHANGED <<claudeVars, hookVars, cfgVars, buildVars, matchVars, log, queryVars, repoVars, writerVars, readerVars,
                 cliVars, ctxVars, llmVars, rlmVars,
                 tMsg, tCache, tOpt, tFirst, tResults, tCalls, tEarlier, tRun>>

\* saveCache 37-41: the file cannot be opened; main 839 drops the Result
TSaveFails ==
  /\ tPc = "save"
  /\ tPc' = afterSave
  /\ tI' = IF afterSave = "loop" THEN tI + 1 ELSE tI
  /\ UNCHANGED <<claudeVars, hookVars, cfgVars, buildVars, matchVars, log, queryVars, repoVars, writerVars, readerVars,
                 cliVars, ctxVars, llmVars, rlmVars,
                 tMsg, tFile, tCache, tOpt, tFirst, tResults, tCalls, tEarlier, tRun>>

\* main 842-845: the delay is over
TDelay ==
  /\ tPc = "delay"
  /\ tPc' = "loop"
  /\ tI' = tI + 1
  /\ UNCHANGED <<claudeVars, hookVars, cfgVars, buildVars, matchVars, log, queryVars, repoVars, writerVars, readerVars,
                 cliVars, ctxVars, llmVars, rlmVars,
                 tMsg, tFile, tCache, tOpt, tFirst, tResults, tCalls, tEarlier, tRun>>

\* the process is stopped from outside while it processes the extracts
TInterrupt ==
  /\ tPc \in {"loop", "first", "retry", "save", "write", "delay"}
  /\ tPc' = "off"
  /\ tEarlier' = tEarlier \cup
       {tResults[i].hash : i \in {j \in 1..Len(tResults) :
            tResults[j].generated # "null" /\ ~tResults[j].cached}}
  /\ tCache' = <<>>
  /\ tResults' = <<>>
  /\ tCalls' = {}
  /\ tFirst' = "null"
  /\ tI' = 0
  /\ UNCHANGED <<claudeVars, hookVars, cfgVars, buildVars, matchVars, log, queryVars, repoVars, writerVars, readerVars,
                 cliVars, ctxVars, llmVars, rlmVars,
                 tMsg, tFile, tOpt, tRun>>

\* main 848-876 and applyToHistory 691-755: the report, then the rewrite
\* if --apply is given, some result is eligible, and --force is given or
\* the answer is y
TReport(apply, force, answer, success) ==
  /\ tPc = "loop"
  /\ tI > tOpt.limit
  /\ tPc' = "done"
  /\ tMsg' = IF /\ apply
                /\ eligibleOf(tResults) # <<>>
                /\ (force \/ answer = "y")
                /\ success
             THEN msgFilter(tMsg, eligibleOf(tResults))
             ELSE tMsg
  /\ UNCHANGED <<claudeVars, hookVars, cfgVars, buildVars, matchVars, log, queryVars, repoVars, writerVars, readerVars,
                 cliVars, ctxVars, llmVars, rlmVars,
                 tFile, tCache, tI, tOpt, tFirst, tResults, tCalls, tEarlier, tRun>>

InitRetrofit ==
  /\ MatchIdle
  /\ log = <<>>
  /\ QueryIdle
  /\ RepoIdle
  /\ WriterIdle
  /\ ReaderIdle
  /\ CliIdle
  /\ CtxIdle
  /\ LlmIdle
  /\ RlmIdle
  /\ BuildIdle
  /\ CfgIdle
  /\ HooksIdle
  /\ ClaudeIdle
  /\ tMsg = [h \in RetroHashes |-> "orig"]
  /\ tFile = [state |-> "absent"]
  /\ tCache = <<>>
  /\ tPc = "off"
  /\ tI = 0
  /\ tOpt = [resume |-> FALSE, limit |-> 0]
  /\ tFirst = "null"
  /\ tResults = <<>>
  /\ tCalls = {}
  /\ tEarlier = {}
  /\ tRun = 0

NextRetrofit ==
  \/ \E resume \in BOOLEAN, limit \in RetroHashes : TStart(resume, limit)
  \/ TProcess
  \/ \E firstResult \in CallResults : TFirstReturns(firstResult)
  \/ \E retryResult \in CallResults : TRetryReturns(retryResult)
  \/ TSaveOpen
  \/ TSaveWrite
  \/ TSaveFails
  \/ TDelay
  \/ TInterrupt
  \/ \E apply \in BOOLEAN, force \in BOOLEAN, answer \in {"y", "n"}, success \in BOOLEAN :
       TReport(apply, force, answer, success)

SpecRetrofit == InitRetrofit /\ [][NextRetrofit]_vars

(***************************************************************************)
(* rlm:configure: parseFlags and main  (rlm-configure.ts 199-230, 283-340) *)
(*                                                                         *)
(* An argument is [name, value]: a bare flag has value 0, --name=n the     *)
(* number n.  loadRlmConfig and saveRlmConfig are not part of the sources  *)
(* at hand: the config file is taken to hold the last config saved, and a  *)
(* save can fail.  The model and endpoint strings are left out.            *)
(***************************************************************************)
BareFlags == {"--enable", "--disable", "--check", "--repl-enable", "--repl-disable"}

IntFlags == {"--timeout=", "--repl-max-iterations=", "--repl-max-llm-calls=",
             "--repl-timeout-budget=", "--repl-max-output-tokens="}

CfgArgs ==
  {[name |-> n, value |-> 0] : n \in BareFlags}
    \cup {[name |-> n, value |-> v] : n \in IntFlags, v \in 1..MaxValue}

RECURSIVE ArgLists(_)
ArgLists(n) ==
  IF n = 0 THEN {<<>>}
  ELSE ArgLists(n - 1) \cup {Append(s, a) : s \in ArgLists(n - 1), a \in CfgArgs}

\* null of a number | null flag
NoNumber == 0

DEFAULT_CONFIG ==
  [enabled |-> FALSE, timeoutMs |-> NoNumber, replEnabled |-> FALSE,
   replMaxIterations |-> NoNumber, replMaxLlmCalls |-> NoNumber,
   replTimeoutBudgetMs |-> NoNumber, replMaxOutputTokens |-> NoNumber]

\* what the config file holds before the run: the defaults, or values set
\* by earlier runs
StoredConfigs ==
  {DEFAULT_CONFIG,
   [enabled |-> TRUE, timeoutMs |-> 1, replEnabled |-> TRUE,
    replMaxIterations |-> 1, replMaxLlmCalls |-> 1,
    replTimeoutBudgetMs |-> 1, replMaxOutputTokens |-> 1]}

noFlags ==
  [enable |-> FALSE, disable |-> FALSE, check |-> FALSE, timeout |-> NoNumber,
   replEnable |-> FALSE, replDisable |-> FALSE,
   replMaxIterations |-> NoNumber, replMaxLlmCalls |-> NoNumber,
   replTimeoutBudget |-> NoNumber, replMaxOutputTokens |-> NoNumber]

\* one turn of the loop of parseFlags (213-223)
parseArg(flags, arg) ==
  IF arg.name = "--enable" THEN [flags EXCEPT !.enable = TRUE]
  ELSE IF arg.name = "--disable" THEN [flags EXCEPT !.disable = TRUE]
  ELSE IF arg.name = "--check" THEN [flags EXCEPT !.check = TRUE]
  ELSE IF arg.name = "--timeout=" THEN [flags EXCEPT !.timeout = arg.value]
  ELSE flags

RECURSIVE parseFlagsFrom(_, _)
parseFlagsFrom(flags, args) ==
  IF args = <<>> THEN flags
  ELSE parseFlagsFrom(parseArg(flags, Head(args)), Tail(args))

parseFlags(args) == parseFlagsFrom(noFlags, args)

hasModification(flags) ==
  \/ flags.enable \/ flags.disable
  \/ flags.timeout # NoNumber
  \/ flags.replEnable \/ flags.replDisable
  \/ flags.replMaxIterations # NoNumber \/ flags.replMaxLlmCalls # NoNumber
  \/ flags.replTimeoutBudget # NoNumber \/ flags.replMaxOutputTokens # NoNumber

\* main 298-325: the modifications, in the order of the code
updatedConfig(current, flags) ==
  LET a == IF flags.enable THEN [current EXCEPT !.enabled = TRUE] ELSE current
      b == IF flags.disable THEN [a EXCEPT !.enabled = FALSE] ELSE a
      c == IF flags.timeout # NoNumber THEN [b EXCEPT !.timeoutMs = flags.timeout] ELSE b
      d == IF flags.replEnable THEN [c EXCEPT !.replEnabled = TRUE] ELSE c
      e == IF flags.replDisable THEN [d EXCEPT !.replEnabled = FALSE] ELSE d
      f == IF flags.replMaxIterations # NoNumber
           THEN [e EXCEPT !.replMaxIterations = flags.replMaxIterations] ELSE e
      g == IF flags.replMaxLlmCalls # NoNumber
           THEN [f EXCEPT !.replMaxLlmCalls = flags.replMaxLlmCalls] ELSE f
      h == IF flags.replTimeoutBudget # NoNumber
           THEN [g EXCEPT !.replTimeoutBudgetMs = flags.replTimeoutBudget] ELSE g
  IN  IF flags.replMaxOutputTokens # NoNumber
      THEN [h EXCEPT !.replMaxOutputTokens = flags.replMaxOutputTokens] ELSE h

\* main 283-340: one run of the command
Configure(saved, connected) ==
  /\ kExit = -1
  /\ UNCHANGED kArgs
  /\ \E flags \in {parseFlags(kArgs)} :
       IF ~hasModification(flags) /\ ~flags.check
       THEN /\ kExit' = 0
            /\ UNCHANGED kStored
       ELSE IF (flags.enable /\ flags.disable) \/ (flags.replEnable /\ flags.replDisable)
       THEN /\ kExit' = 1
            /\ UNCHANGED kStored
       ELSE IF hasModification(flags) /\ ~saved
       THEN /\ kExit' = 1
            /\ UNCHANGED kStored
       ELSE /\ kStored' = IF hasModification(flags)
                          THEN updatedConfig(kStored, flags) ELSE kStored
            /\ kExit' = IF flags.check /\ ~connected THEN 1 ELSE 0
  /\ UNCHANGED <<claudeVars, hookVars, retroVars, buildVars, matchVars, log, queryVars, repoVars, writerVars,
                 readerVars, cliVars, ctxVars, llmVars, rlmVars>>

InitConfigure ==
  /\ MatchIdle
  /\ log = <<>>
  /\ QueryIdle
  /\ RepoIdle
  /\ WriterIdle
  /\ ReaderIdle
  /\ CliIdle
  /\ CtxIdle
  /\ LlmIdle
  /\ RlmIdle
  /\ BuildIdle
  /\ RetroIdle
  /\ HooksIdle
  /\ ClaudeIdle
  /\ kArgs \in ArgLists(MaxArgs)
  /\ kStored \in StoredConfigs
  /\ kExit = -1

NextConfigure ==
  \E saved \in BOOLEAN, connected \in BOOLEAN : Configure(saved, connected)

SpecConfigure == InitConfigure /\ [][NextConfigure]_vars

(***************************************************************************)
(* The hook installer: installHook, uninstallHook                          *)
(* (install-hooks.ts 92-122, 124-147)                                      *)
(*                                                                         *)
(* The hooks directory is the content of commit-msg and of                 *)
(* commit-msg.original, "none" for a file that does not exist.  A content  *)
(* is one of the two shims, a hook of the user, or a hook of the user      *)
(* whose text contains "Structured Git Commits".                           *)
(***************************************************************************)
HOOK_SHIM == "shim"

GLOBAL_HOOK_SHIM == "global shim"

HookContents == {"user hook a", "user hook b", "user hook with the name", HOOK_SHIM, GLOBAL_HOOK_SHIM}

\* content.includes("Structured Git Commits")
includesName(content) == content \in {"user hook with the name", HOOK_SHIM, GLOBAL_HOOK_SHIM}

HooksDir(hook, backup) == [hook |-> hook, backup |-> backup]

Exited(dir, code) == [dir |-> dir, exit |-> code]

installHook(dir, shimContent) ==
  IF dir.hook # "none" /\ ~includesName(dir.hook)
  THEN IF dir.backup # "none"
       THEN Exited(dir, 1)
       ELSE Exited(HooksDir(shimContent, dir.hook), 0)
  ELSE Exited(HooksDir(shimContent, dir.backup), 0)

\* the hook is removed and the backup left where it is
uninstallHook_NoRestore(dir) ==
  IF dir.hook = "none" THEN Exited(dir, 0)
  ELSE IF ~includesName(dir.hook) THEN Exited(dir, 1)
  ELSE Exited(HooksDir("none", dir.backup), 0)

uninstallHook(dir) ==
  IF dir.hook = "none" THEN Exited(dir, 0)
  ELSE IF ~includesName(dir.hook) THEN Exited(dir, 1)
  ELSE IF dir.backup # "none" THEN Exited(HooksDir(dir.backup, "none"), 0)
  ELSE Exited(HooksDir("none", "none"), 0)

\* main 153-195 without --uninstall
HookInstall(shimContent) ==
  /\ Len(hTrace) < MaxHookCalls
  /\ \E r \in {installHook(hDir, shimContent)} :
       /\ hDir' = r.dir
       /\ hTrace' = Append(hTrace, [op |-> "install", exit |-> r.exit])
  /\ UNCHANGED <<claudeVars, cfgVars, retroVars, buildVars, matchVars, log, queryVars, repoVars, writerVars,
                 readerVars, cliVars, ctxVars, llmVars, rlmVars, hStart>>

\* main 153-195 with --uninstall
HookUninstall ==
  /\ Len(hTrace) < MaxHookCalls
  /\ \E r \in {uninstallHook(hDir)} :
       /\ hDir' = r.dir
       /\ hTrace' = Append(hTrace, [op |-> "uninstall", exit |-> r.exit])
  /\ UNCHANGED <<claudeVars, cfgVars, retroVars, buildVars, matchVars, log, queryVars, repoVars, writerVars,
                 readerVars, cliVars, ctxVars, llmVars, rlmVars, hStart>>

InitHooks ==
  /\ MatchIdle
  /\ log = <<>>
  /\ QueryIdle
  /\ RepoIdle
  /\ WriterIdle
  /\ ReaderIdle
  /\ CliIdle
  /\ CtxIdle
  /\ LlmIdle
  /\ RlmIdle
  /\ BuildIdle
  /\ RetroIdle
  /\ CfgIdle
  /\ ClaudeIdle
  /\ hDir \in {HooksDir(hook, backup) : hook \in HookContents \cup {"none"},
                                        backup \in HookContents \cup {"none"}}
  /\ hStart = hDir
  /\ hTrace = <<>>

NextHooks ==
  \/ \E shimContent \in {HOOK_SHIM, GLOBAL_HOOK_SHIM} : HookInstall(shimContent)
  \/ HookUninstall

SpecHooks == InitHooks /\ [][NextHooks]_vars

(***************************************************************************)
(* callClaude  (lib/llm.ts 24-98)                                          *)
(*                                                                         *)
(* Each await of the code is a position.  fetch resolves with a response   *)
(* once the headers are in, rejects on a network error, or rejects with an *)
(* AbortError when the timer fires; the timer is cleared as soon as fetch  *)
(* resolves.  The body of a response arrives, or the read of it rejects,   *)
(* or neither happens.                                                     *)
(***************************************************************************)
MAX_RETRIES == 2

Success(value) == [ok |-> TRUE, value |-> value]

Failure(message) == [ok |-> FALSE, value |-> message]

FetchOutcomes == {"429", "status", "ok", "network error", "AbortError"}

\* what response.json() gives for a 200: a body with a text block, one whose
\* text is blank, one without content, one without a text block, the JSON
\* value null, bytes that are not JSON, or a connection lost on the way
Bodies == {"text", "blank text", "no content", "no text block", "null", "not JSON", "dropped"}

\* extractText  (24-36)
extractText(body) ==
  IF body = "no content" THEN Failure("Empty response content from API")
  ELSE IF body = "no text block" THEN Failure("No text block in API response")
  ELSE IF body = "blank text" THEN Success("")
  ELSE Success("message")

\* the exception response.json() and extractText end with, "none" without
thrownBy(body) ==
  IF body = "not JSON" THEN "SyntaxError"
  ELSE IF body = "dropped" THEN "network error"
  ELSE IF body = "null" THEN "TypeError"
  ELSE "none"

Return(result) == aResult' = result /\ aPc' = "done"

\* the catch block  (85-94)
Caught(e) ==
  IF e = "AbortError" THEN Return(Failure("API request timed out after 30s"))
  ELSE IF aAttempt < MAX_RETRIES
  THEN aPc' = "delay" /\ UNCHANGED aResult
  ELSE Return(Failure(e))

\* the head of the loop and the fetch  (43-62); line 97 after the loop
ClaudeSend ==
  /\ aPc = "loop"
  /\ IF aAttempt <= MAX_RETRIES
     THEN /\ aSent' = aSent + 1
          /\ aPc' = "fetch"
          /\ UNCHANGED aResult
     ELSE /\ Return(Failure("Exhausted retries"))
          /\ UNCHANGED aSent
  /\ UNCHANGED <<hookVars, cfgVars, retroVars, buildVars, matchVars, log, queryVars, repoVars,
                 writerVars, readerVars, cliVars, ctxVars, llmVars, rlmVars, aAttempt, aLog>>

\* fetch resolves or rejects  (48-76, 85-94)
ClaudeFetchReturns(outcome) ==
  /\ aPc = "fetch"
  /\ aLog' = Append(aLog, [response |-> outcome, body |-> "none"])
  /\ IF outcome = "429"
     THEN IF aAttempt < MAX_RETRIES
          THEN aPc' = "delay" /\ UNCHANGED aResult
          ELSE Return(Failure("Rate limited after retries"))
     ELSE IF outcome = "status" THEN aPc' = "text" /\ UNCHANGED aResult
     ELSE IF outcome = "ok" THEN aPc' = "json" /\ UNCHANGED aResult
     ELSE Caught(outcome)
  /\ UNCHANGED <<hookVars, cfgVars, retroVars, buildVars, matchVars, log, queryVars, repoVars,
                 writerVars, readerVars, cliVars, ctxVars, llmVars, rlmVars, aAttempt, aSent>>

\* response.text() of a response that is not OK  (76-81)
ClaudeTextReturns(read) ==
  /\ aPc = "text"
  /\ aLog' = [aLog EXCEPT ![Len(aLog)].body = IF read THEN "read" ELSE "dropped"]
  /\ IF read THEN Return(Failure("API error")) ELSE Caught("network error")
  /\ UNCHANGED <<hookVars, cfgVars, retroVars, buildVars, matchVars, log, queryVars, repoVars,
                 writerVars, readerVars, cliVars, ctxVars, llmVars, rlmVars, aAttempt, aSent>>

\* response.json() and extractText  (83-84)
ClaudeJsonReturns(body) ==
  /\ aPc = "json"
  /\ aLog' = [aLog EXCEPT ![Len(aLog)].body = body]
  /\ IF thrownBy(body) = "none" THEN Return(extractText(body)) ELSE Caught(thrownBy(body))
  /\ UNCHANGED <<hookVars, cfgVars, retroVars, buildVars, matchVars, log, queryVars, repoVars,
                 writerVars, readerVars, cliVars, ctxVars, llmVars, rlmVars, aAttempt, aSent>>

\* await delay(...) and continue  (70-71, 90-91)
ClaudeDelayEnds ==
  /\ aPc = "delay"
  /\ aAttempt' = aAttempt + 1
  /\ aPc' = "loop"
  /\ UNCHANGED <<hookVars, cfgVars, retroVars, buildVars, matchVars, log, queryVars, repoVars,
                 writerVars, readerVars, cliVars, ctxVars, llmVars, rlmVars, aSent, aLog, aResult>>

InitClaude ==
  /\ MatchIdle
  /\ log = <<>>
  /\ QueryIdle
  /\ RepoIdle
  /\ WriterIdle
  /\ ReaderIdle
  /\ CliIdle
  /\ CtxIdle
  /\ LlmIdle
  /\ RlmIdle
  /\ BuildIdle
  /\ RetroIdle
  /\ CfgIdle
  /\ HooksIdle
  /\ aPc = "loop"
  /\ aAttempt = 0
  /\ aSent = 0
  /\ aLog = <<>>
  /\ aResult = [ok |-> FALSE, value |-> "pending"]

NextClaude ==
  \/ ClaudeSend
  \/ \E outcome \in FetchOutcomes : ClaudeFetchReturns(outcome)
  \/ \E read \in BOOLEAN : ClaudeTextReturns(read)
  \/ \E body \in Bodies : ClaudeJsonReturns(body)
  \/ ClaudeDelayEnds

SpecClaude == InitClaude /\ [][NextClaude]_vars

\* the steps of the program are taken, the timers fire and fetch ends, at
\* the latest by the abort; nothing makes the body of a response arrive
SpecClaudeFair ==
  /\ SpecClaude
  /\ WF_vars(ClaudeSend)
  /\ WF_vars(\E outcome \in FetchOutcomes : ClaudeFetchReturns(outcome))
  /\ WF_vars(ClaudeDelayEnds)

(***************************************************************************)
(* SpecMatch: the two primitives applied to every pair of bounded strings  *)
(***************************************************************************)
InitMatch ==
  /\ mText \in Strs(MaxText)
  /\ mKey \in Strs(MaxKey)
  /\ mOp = "none"
  /\ mRes = FALSE
  /\ log = <<>>
  /\ QueryIdle
  /\ RepoIdle
  /\ WriterIdle
  /\ ReaderIdle
  /\ CliIdle
  /\ CtxIdle
  /\ LlmIdle
  /\ RlmIdle
  /\ BuildIdle
  /\ RetroIdle
  /\ CfgIdle
  /\ HooksIdle
  /\ ClaudeIdle

CallScopeMatches ==
  /\ mOp = "none"
  /\ mOp' = "scope"
  /\ mRes' = scopeMatches(mText, mKey)
  /\ UNCHANGED <<claudeVars, hookVars, cfgVars, retroVars, buildVars, rlmVars, llmVars, ctxVars, cliVars, mText, mKey, log, queryVars, repoVars, writerVars, readerVars>>

CallWordBoundaryMatch ==
  /\ mOp = "none"
  /\ mOp' = "word"
  /\ mRes' = wordBoundaryMatch(mText, mKey)
  /\ UNCHANGED <<claudeVars, hookVars, cfgVars, retroVars, buildVars, rlmVars, llmVars, ctxVars, cliVars, mText, mKey, log, queryVars, repoVars, writerVars, readerVars>>

NextMatch ==
  \/ CallScopeMatches
  \/ CallWordBoundaryMatch

SpecMatch == InitMatch /\ [][NextMatch]_vars

(***************************************************************************)
(* Claims about the matching primitives                                    *)
(***************************************************************************)
\* case-insensitive equality of two strings, character by character
CIChar(c, d) == c = d \/ {c, d} = {"a", "A"}

CIEqual(x, y) ==
  /\ Len(x) = Len(y)
  /\ \A i \in 1..Len(x) : CIChar(x[i], y[i])

\* x occurs in t at 0-based offset i, ignoring case
OccursAt(t, x, i) ==
  /\ i + Len(x) =< Len(t)
  /\ CIEqual(SubSeq(t, i + 1, i + Len(x)), x)

\* value is pattern followed by "/" and anything, ignoring case
PathPrefix(value, pattern) ==
  /\ Len(value) > Len(pattern)
  /\ OccursAt(value, pattern, 0)
  /\ value[Len(pattern) + 1] = "/"

\* C1: scopeMatches(value, pattern) is true iff, ignoring case, value equals
\* pattern or value starts with pattern immediately followed by "/"; it is
\* false when value only contains pattern without that boundary.
C1_ScopeMatchesIff ==
  mOp = "scope" =>
    /\ mRes <=> (CIEqual(mText, mKey) \/ PathPrefix(mText, mKey))
    /\ ( /\ \E i \in 0..Len(mText) : OccursAt(mText, mKey, i)
         /\ ~CIEqual(mText, mKey)
         /\ ~PathPrefix(mText, mKey) ) => ~mRes

\* a child scope in another case matched its parent pattern
C1_Witness ==
  /\ mOp = "scope"
  /\ mRes
  /\ mKey = <<"a">>
  /\ mText = <<"A", "/", "a">>

WordAt(t, j) == j \in 1..Len(t) /\ t[j] \in {"a", "A"}

\* an occurrence at offset i that has a non-word character or a string edge
\* on each side
BoundedOccurrence(t, k, i) ==
  /\ OccursAt(t, k, i)
  /\ ~WordAt(t, i)
  /\ ~WordAt(t, i + Len(k) + 1)

\* an occurrence at offset i whose two ends are word boundaries of the text:
\* at each end exactly one of the two characters next to that position is a
\* word character (a string edge counts as a non-word character)
WordBoundedOccurrence(t, k, i) ==
  /\ OccursAt(t, k, i)
  /\ WordAt(t, i) # WordAt(t, i + 1)
  /\ WordAt(t, i + Len(k)) # WordAt(t, i + Len(k) + 1)

\* C2 as stated: wordBoundaryMatch(text, keyword) is true exactly when text
\* has a case-insensitive literal occurrence of keyword bounded on each side
\* by a non-word character or a string edge (stated for the non-empty
\* keywords, the only ones the query filters pass).
C2_Original ==
  (mOp = "word" /\ mKey # <<>>) =>
    (mRes <=> \E i \in 0..Len(mText) : BoundedOccurrence(mText, mKey, i))

\* C2 amended: wordBoundaryMatch(text, keyword) is true exactly when text has
\* a case-insensitive literal occurrence of keyword whose two ends are word
\* boundaries of text; for a keyword that starts and ends with a word
\* character that is an occurrence bounded on each side by a non-word
\* character or a string edge, so a keyword inside a longer token does not
\* match.  Special characters of keyword are taken literally.
C2_WordBoundaryMatchIff ==
  mOp = "word" =>
    /\ mRes <=> \E i \in 0..Len(mText) : WordBoundedOccurrence(mText, mKey, i)
    /\ (WordAt(mKey, 1) /\ WordAt(mKey, Len(mKey))) =>
         (mRes <=> \E i \in 0..Len(mText) : BoundedOccurrence(mText, mKey, i))

\* a keyword with a metacharacter matched inside a longer text
C2_Witness ==
  /\ mOp = "word"
  /\ mRes
  /\ mKey = <<".", "a">>
  /\ mText = <<"a", ".", "A">>

(***************************************************************************)
(* Claims about the query library                                          *)
(***************************************************************************)
Range(seq) == {seq[i] : i \in 1..Len(seq)}

HashesOf(commits) == {commits[i].hash : i \in 1..Len(commits)}

Min(a, b) == IF a < b THEN a ELSE b

\* a commit satisfies every active filter of the parameters other than the
\* decided-against keyword
MatchesTrailers(c, p) ==
  /\ p.intents # <<>> => c.intent \in Range(p.intents)
  /\ TruthyChars(p.scope) =>
       \E s \in Range(c.scope) : CIEqual(s, p.scope[1]) \/ PathPrefix(s, p.scope[1])
  /\ TruthyStr(p.session) => c.session = p.session
  /\ p.decisionsOnly => c.decidedAgainst # <<>>

MatchSet(commits, p) ==
  {commits[i].hash : i \in {j \in 1..Len(commits) : MatchesTrailers(commits[j], p)}}

HasTrailerFilter(p) ==
  \/ p.intents # <<>>
  \/ TruthyChars(p.scope)
  \/ TruthyStr(p.session)
  \/ p.decisionsOnly

WithIntents(p, intents) == [p EXCEPT !.intents = intents]

Unlimited(p) == [p EXCEPT !.limit = Len(log) + 1]

\* C5 as stated: with intents = [A, B] the result equals the union of the
\* results for [A] and for [B], all other parameters unchanged.
C5_Original ==
  (qOp = "query" /\ Len(qParams.intents) = 2) =>
    HashesOf(qScan) =
      HashesOf(applyQueryFilters(log, WithIntents(qParams, <<qParams.intents[1]>>)))
      \cup
      HashesOf(applyQueryFilters(log, WithIntents(qParams, <<qParams.intents[2]>>)))

\* C5 amended: with intents = [A, B] the result is the first limit commits,
\* in list order, of the union of what [A] and [B] select with all other
\* filters unchanged and no truncation; it equals the union of the results
\* for [A] and for [B] whenever that union has at most limit commits.
C5_MultiIntentIsUnion ==
  (qOp = "query" /\ Len(qParams.intents) = 2) =>
    LET pA == WithIntents(qParams, <<qParams.intents[1]>>)
        pB == WithIntents(qParams, <<qParams.intents[2]>>)
        U  == HashesOf(applyQueryFilters(log, Unlimited(pA)))
              \cup HashesOf(applyQueryFilters(log, Unlimited(pB)))
        inU(c) == c.hash \in U
    IN  /\ qScan = slice0(SelectSeq(log, inU), qParams.limit)
        /\ Cardinality(U) =< qParams.limit =>
             HashesOf(qScan) = HashesOf(applyQueryFilters(log, pA))
                               \cup HashesOf(applyQueryFilters(log, pB))

\* a two-intent query, narrowed by a scope, that returned a commit of each
C5_Witness ==
  /\ qOp = "query"
  /\ qParams.intents = <<"A", "B">>
  /\ TruthyChars(qParams.scope)
  /\ Len(qScan) = 2
  /\ qScan[1].intent # qScan[2].intent

(***************************************************************************)
(* Claims about the index file                                             *)
(***************************************************************************)
\* the call has returned, and the tip and the file are what they were all
\* through it
Returned(kind) == rKind = kind /\ rPc = "done"

Quiet(kind) == Returned(kind) /\ ~rInterfered

IsIndexFor(content, h) == content.kind = "index" /\ content.headCommit = h

IsStale(content, h) == content.kind = "index" /\ content.headCommit # h

\* C3: loadIndex returns null whenever the headCommit stored in the file
\* differs from the current HEAD, even if the file is otherwise well-formed;
\* a non-null index is returned only when the stored headCommit equals the
\* current tip.
C3_StaleIndexIsNull ==
  /\ Quiet("load") =>
       /\ (gitResolves /\ IsStale(file, tip)) => rResult = OkNull
       /\ (rResult.ok /\ ~rResult.null) =>
            (IsIndexFor(file, tip) /\ rResult.index = file)
  /\ Returned("load") =>
       (IsStale(rSeen1, rHead) => rResult = OkNull)

\* a well-formed index of an older tip was refused
C3_Witness ==
  /\ Quiet("load")
  /\ gitResolves
  /\ file.kind = "index"
  /\ file.version = 1
  /\ file.body = "ok"
  /\ file.headCommit < tip
  /\ rResult = OkNull

\* C6: the context hook never raises to its caller, whatever the input, the
\* git state and the content of the index file.
C6_HookNeverRaises == hookOut # "uncaught"

\* C7: no read of checkFreshness or loadIndex sees a partially written
\* index file.
C7_AtomicReplace ==
  /\ rSeen1.kind # "partial"
  /\ rSeen2.kind # "partial"

\* the four cases of an unavailable index
Unavailable(content, h) ==
  \/ content.kind = "absent"
  \/ content.kind \in {"garbage", "partial", "jsonNull"}
  \/ IsStale(content, h)
  \/ content.kind = "index" /\ content.version # 1

AnyFilterActive(p) == HasTrailerFilter(p) \/ TruthyChars(p.decidedAgainst)

\* the run could use the index, a fresh index was there, and it gave no
\* candidate hash
IndexGaveNothing ==
  /\ cOp = "run"
  /\ ~cOptions.noIndex
  /\ cOptions.path = "null"
  /\ AnyFilterActive(toQueryParams(cOptions))
  /\ IsIndexFor(file, headOf(log))
  /\ headOf(log) # 0
  /\ queryIndexForHashes(file.body, toQueryParams(cOptions)) = <<>>

WithinRestriction(c, o) ==
  /\ o.restriction.since # 0 => c.date.local >= o.restriction.since
  /\ o.restriction.sinceCommit # 0 => c.hash > o.restriction.sinceCommit

\* a commit satisfies every active filter of the options
MatchesOptions(c, o) ==
  /\ MatchesTrailers(c, toQueryParams(o))
  /\ TruthyChars(o.decidedAgainst) =>
       \E d \in Range(c.decidedAgainst) : wordBoundaryMatch(d, o.decidedAgainst[1])
  /\ TruthyStr(o.path) => c.hash \in touched
  /\ WithinRestriction(c, o)

\* the matching commits of the history, newest first
MatchingCommits(o) ==
  LET matches(c) == MatchesOptions(c, o)
  IN  SelectSeq(log, matches)

\* C11: the parse CLI prints exactly the first min(limit, m) of the m
\* commits of the history that satisfy all active filters, newest first, on
\* its git-log path and on its index path alike.
C11_LimitAppliedLast ==
  (cOp = "run" /\ cPath # "error") =>
    cOut = SubSeq(MatchingCommits(cOptions), 1,
                  Min(cOptions.limit, Len(MatchingCommits(cOptions))))

\* the same run with --no-index given or dropped
OtherPath(o) == [o EXCEPT !.noIndex = ~o.noIndex]

\* C12: with a fresh index the parse CLI prints the same commits whether it
\* answers through the index or, under --no-index, through git log.
C12_IndexNotNeeded ==
  (cOp = "run" /\ headOf(log) # 0 /\ IsIndexFor(file, headOf(log))) =>
    cOut = cliMain(OtherPath(cOptions)).out

(***************************************************************************)
(* Claims about the recency block                                          *)
(***************************************************************************)
\* the moment a date names, in hours UTC
Instant(d) == d.local - d.offset

CommitOfHash(h) == CHOOSE c \in Range(log) : c.hash = h

RecentHashes == {ctxRecent[i].hash : i \in 1..Len(ctxRecent)}

\* C13: the hook lists at most N commits; from a fresh index they are the
\* min(N, |commits|) commits of the index with the latest dates, latest
\* first; without an index they are the structured commits among the N
\* newest commits of the log.
C13_RecentByDate ==
  ctxOp = "run" =>
    /\ Len(ctxRecent) <= MAX_RECENT_COMMITS
    /\ ctxSource = "index" =>
         /\ Len(ctxRecent) = Min(MAX_RECENT_COMMITS, Len(parsedOf(log)))
         /\ RecentHashes \subseteq HashesOf(parsedOf(log))
         /\ \A i, j \in 1..Len(ctxRecent) :
              i < j => Instant(CommitOfHash(ctxRecent[i].hash).date)
                         >= Instant(CommitOfHash(ctxRecent[j].hash).date)
         /\ \A c \in Range(parsedOf(log)) : \A h \in RecentHashes :
              c.hash \notin RecentHashes =>
                Instant(c.date) <= Instant(CommitOfHash(h).date)
    /\ ctxSource = "gitlog" =>
         ctxRecent = toRecent(parsedOf(SubSeq(log, 1,
                        Min(MAX_RECENT_COMMITS, Len(log)))))

\* a decided-against text of the commit is in the block
Emitted(c) == \E i \in 1..Len(ctxDecisions) : ctxDecisions[i].text[1] = c.hash

\* a decided-against text of the commit is not in the block
LeftOut(c) ==
  \E k \in 1..Len(c.decidedAgainst) :
    \A i \in 1..Len(ctxDecisions) : ctxDecisions[i].text # c.decidedAgainst[k]

\* later as a moment and as a date string
LaterDated(c, d) ==
  Instant(c.date) > Instant(d.date) /\ localeCompare(c.date, d.date) > 0

\* C14 as stated: at most M entries, and no entry of a commit is emitted
\* while an entry of a more recently dated commit is left out.
C14_Original ==
  (ctxOp = "run" /\ ctxSource = "index") =>
    /\ Len(ctxDecisions) <= MAX_DECISIONS
    /\ \A c, d \in Range(parsedOf(log)) :
         (Emitted(c) /\ LeftOut(d)) => ~LaterDated(d, c)

\* every decided-against entry of the commits, in their order
RECURSIVE EntriesOf(_)
EntriesOf(commits) ==
  IF commits = <<>> THEN <<>>
  ELSE [k \in 1..Len(Head(commits).decidedAgainst) |->
          [scope |-> Head(commits).scope, text |-> Head(commits).decidedAgainst[k]]]
       \o EntriesOf(Tail(commits))

\* the position of a commit in git log
PositionOf(c) == CHOOSE i \in 1..Len(log) : log[i] = c

\* C14 amended: the entries are taken in the order of withDecidedAgainst,
\* which is the order of git log and not of the dates: the block holds the
\* first min(M, total) decided-against texts of the indexed commits in that
\* order, so no entry of a commit is emitted while an entry of a commit that
\* git log lists before it is left out.
C14_DecisionsInLogOrder ==
  (ctxOp = "run" /\ ctxSource = "index") =>
    /\ Len(ctxDecisions) <= MAX_DECISIONS
    /\ ctxDecisions =
         SubSeq(EntriesOf(parsedOf(log)), 1,
                Min(MAX_DECISIONS, Len(EntriesOf(parsedOf(log)))))
    /\ \A c, d \in Range(parsedOf(log)) :
         (Emitted(c) /\ LeftOut(d)) => PositionOf(d) >= PositionOf(c)

\* more decided-against texts than the cap: the block holds the cap
C14_Witness ==
  /\ ctxOp = "run"
  /\ ctxSource = "index"
  /\ Len(EntriesOf(parsedOf(log))) > MAX_DECISIONS
  /\ Len(ctxDecisions) = MAX_DECISIONS
  /\ \E c \in Range(parsedOf(log)) : Emitted(c) /\ LeftOut(c)

\* C15: every non-empty block the hook prints carries a mode tag that
\* parseContextBlock reads and that names the mode used, recency.
C15_BlockCarriesMode ==
  (ctxOp = "run" /\ ctxOut # <<>>) =>
    /\ parseContextBlock(ctxOut).block # "null"
    /\ parseContextBlock(ctxOut).mode = "recency"

(***************************************************************************)
(* Claims about the delegated call                                         *)
(***************************************************************************)
\* C16: callLocalLlm sends one request and never another; it is never
\* pending once timeoutMs has passed, and it returns a value only when the
\* complete response arrived within timeoutMs.
C16_OneAttemptWithinTimeout ==
  /\ lAttempts <= 1
  /\ lPc \in {"fetch", "json", "text"} => lNow <= lTimeoutMs
  /\ (lPc = "done" /\ lResult.ok) => lNow <= lTimeoutMs

(***************************************************************************)
(* Follow-up queries  (SpecRlm)                                            *)
(***************************************************************************)
ValidScopesNow == validScopesOf(buildIndex(log, headOf(log)))

\* the elements of the response that parseFollowUpResponse looks at
ProposedQueries ==
  IF parseJsonObject(fText) = JNull THEN <<>>
  ELSE slice0(arrayOr(parseJsonObject(fText).queries), 2)

ProposesInvalidScope(q) ==
  /\ q.t = "obj"
  /\ q.scope.t = "str"
  /\ q.scope.v \notin ValidScopesNow

\* the element carries nothing but its scope
ScopeOnly(q) ==
  /\ ~(q.intent.t = "str" /\ q.intent.v \in INTENT_TYPES)
  /\ q.decidedAgainst.t # "str"

AllProposeInvalidScope ==
  /\ fOp = "followup"
  /\ ProposedQueries # <<>>
  /\ \A i \in 1..Len(ProposedQueries) : ProposesInvalidScope(ProposedQueries[i])

\* C17, as stated: follow-up queries that propose a scope outside the
\* valid-scope set add no hash; the candidate set stays the original one.
C17_Original == AllProposeInvalidScope => fMerged = fBase

\* C17, amended: an invalid scope never reaches the resolution (it is
\* replaced by null), and follow-up queries that carry only an invalid
\* scope are dropped and leave the candidate set as it was; a query that
\* also carries a valid intent or a decided-against keyword is resolved on
\* those.
C17_InvalidScopeIsDropped ==
  AllProposeInvalidScope =>
    /\ \A i \in 1..Len(fQueries) : fQueries[i].scope = <<>>
    /\ (\A i \in 1..Len(ProposedQueries) : ScopeOnly(ProposedQueries[i]))
         => fQueries = <<>> /\ fMerged = fBase

C17_Witness ==
  /\ AllProposeInvalidScope
  /\ \A i \in 1..Len(ProposedQueries) : ScopeOnly(ProposedQueries[i])
  /\ log # <<>>
  /\ fBase # {}
  /\ fMerged = fBase

\* C18: parseFollowUpResponse returns at most 2 queries, each with at
\* least one non-null field, every non-null scope in validScopes and every
\* non-null intent in INTENT_TYPES.
C18_FollowUpQueriesAreValid ==
  fOp = "followup" =>
    /\ Len(fQueries) <= 2
    /\ \A i \in 1..Len(fQueries) :
         /\ \/ fQueries[i].scope # <<>>
            \/ fQueries[i].intent # "null"
            \/ fQueries[i].decidedAgainst # <<>>
         /\ fQueries[i].scope # <<>> => fQueries[i].scope[1] \in ValidScopesNow
         /\ fQueries[i].intent # "null" => fQueries[i].intent \in INTENT_TYPES

\* a response with more than two usable elements, of which two are returned
C18_Witness ==
  /\ fOp = "followup"
  /\ Len(fText) = 1
  /\ fText[1].t = "obj"
  /\ fText[1].queries.t = "arr"
  /\ Len(fText[1].queries.items) > 2
  /\ \A i \in 1..Len(fText[1].queries.items) :
       fText[1].queries.items[i] = JQuery(JStr(ScopeA), JUndefined, JStr(<<"a">>))
  /\ ScopeA \in ValidScopesNow
  /\ Len(fQueries) = 2
  /\ fQueries[1].scope = <<ScopeA>>

\* no token of the text holds a JSON object
NoObject(text) ==
  \A i \in 1..Len(text) : IsFence(text[i]) \/ objectsIn(text[i]) = <<>>

\* the text is a JSON object once fences and trailing markers are stripped
DecodesAfterStripping(text) == tryParse(normalizeJsonPayload(text)) # JNull

Neutral ==
  /\ fOp = "analyze" => fSignals = EMPTY_SIGNALS
  /\ fOp = "followup" => fQueries = <<>>

\* C19, as stated: a text that is no JSON object after the fences and
\* trailing markers are stripped gives the empty signals and the empty
\* list.
C19_Original ==
  (fOp # "none" /\ ~DecodesAfterStripping(fText)) => Neutral

\* C19, amended: the parsers also take the object between the first "{"
\* and the last "}" of the text; a text that holds no JSON object, an object
\* without the expected arrays, and a queries array whose elements cannot
\* be read give the empty signals and the empty list, and no parser throws.
C19_NeutralOnDecodeFailure ==
  /\ fOp # "threw"
  /\ (fOp # "none" /\ NoObject(fText)) => Neutral
  /\ (fOp = "analyze" /\ parseJsonObject(fText) # JNull
        /\ parseJsonObject(fText).scopes.t # "arr"
        /\ parseJsonObject(fText).intents.t # "arr"
        /\ parseJsonObject(fText).keywords.t # "arr") => fSignals = EMPTY_SIGNALS
  /\ (fOp = "followup" /\ parseJsonObject(fText) # JNull
        /\ parseJsonObject(fText).queries.t # "arr") => fQueries = <<>>
  /\ (fOp = "followup"
        /\ \E i \in 1..Len(ProposedQueries) : ProposedQueries[i] = JNull)
       => fQueries = <<>>

\* a queries array with a usable element and a null one
C19_Witness ==
  /\ fOp = "followup"
  /\ DecodesAfterStripping(fText)
  /\ Len(ProposedQueries) = 2
  /\ ProposedQueries[1] = JQuery(JStr(ScopeA), JUndefined, JStr(<<"a">>))
  /\ ProposedQueries[2] = JNull
  /\ ScopeA \in ValidScopesNow
  /\ fQueries = <<>>

(***************************************************************************)
(* A failed build  (SpecIndex)                                             *)
(***************************************************************************)
\* C20, for the errors buildIndex returns: it returns one only when git
\* cannot read the history (no git, no repository, no commit), and the build
\* command that got the error exits without writing: the step leaves the
\* index file as it was, and the command never reaches its write.
C20_FailedBuildPersistsNothing ==
  /\ [](wIndex = Fail => wPc = "idle")
  /\ [][(wIndex' = Fail /\ wIndex # Fail) => (~gitResolves /\ file' = file)]_vars

\* a build has failed over an index file that exists
C20_Witness ==
  /\ wIndex = Fail
  /\ wPc = "idle"
  /\ file \in {IndexFile(h, 1, "ok") : h \in 1..MaxTip}

(***************************************************************************)
(* Builds of the index  (SpecBuild)                                        *)
(***************************************************************************)
Runs == 1..Len(bRuns)

\* two builds that read the same log and the same tip
SameLogAndTip(i, j) ==
  /\ i # j
  /\ bRuns[i].log = bRuns[j].log
  /\ bRuns[i].head = bRuns[j].head

Unstamped(index) == [index EXCEPT !.generated = 0]

WellFormed(blocks) == {blocks[i] : i \in {k \in 1..Len(blocks) : blocks[k].structured}}

Malformed(blocks) == {blocks[i] : i \in {k \in 1..Len(blocks) : ~blocks[k].structured}}

\* the hashes an index holds anywhere
IndexedHashes(index) ==
  {index.commits[k].k : k \in 1..Len(index.commits)}
  \cup UNION {Range(index.byIntent[k].v) : k \in 1..Len(index.byIntent)}
  \cup UNION {Range(index.byScope[k].v) : k \in 1..Len(index.byScope)}
  \cup UNION {Range(index.bySession[k].v) : k \in 1..Len(index.bySession)}
  \cup Range(index.withDecidedAgainst)

\* every trailer of the block is found under its key
Covers(index, b) ==
  /\ \E k \in 1..Len(index.commits) : index.commits[k].k = b.hash
  /\ b.intent # "null" => b.hash \in Range(lookup(index.byIntent, b.intent))
  /\ \A j \in 1..Len(b.scope) : b.hash \in Range(lookup(index.byScope, b.scope[j]))
  /\ TruthyStr(b.session) => b.hash \in Range(lookup(index.bySession, b.session))
  /\ Len(b.decidedAgainst) > 0 => b.hash \in Range(index.withDecidedAgainst)

\* C22: a build that read a log with malformed records produces an index;
\* the index covers every well-formed record and holds no dropped one.
C22_MalformedRecordsAreDropped ==
  \A i \in Runs :
    (bRuns[i].kind # "error" /\ Malformed(bRuns[i].log) # {}) =>
      /\ bRuns[i].kind = "ok"
      /\ \A b \in WellFormed(bRuns[i].log) : Covers(bRuns[i].index, b)
      /\ \A b \in Malformed(bRuns[i].log) : b.hash \notin IndexedHashes(bRuns[i].index)

\* C20, over the raw log: a build that ends without an index is one whose
\* log could not be read (here: a history without a commit).
C20_BuildFailsOnlyOnUnreadableLog ==
  \A i \in Runs : bRuns[i].kind # "ok" => bRuns[i].log = <<>>

EntriesOfIndex(index) == {index.commits[k].v : k \in 1..Len(index.commits)}

\* the inverted maps hold a hash exactly under the trailers of its entry
MapsAgree(index) ==
  LET E == EntriesOfIndex(index)
  IN  /\ \A k \in 1..Len(index.commits) : index.commits[k].k = index.commits[k].v.hash
      /\ \A i \in {"A", "B", "C"} :
           Range(lookup(index.byIntent, i)) = {e.hash : e \in {x \in E : x.intent = i}}
      /\ \A s \in {ScopeA, ScopeAsA, ScopeAA, ScopeInherited} :
           Range(lookup(index.byScope, s))
             = {e.hash : e \in {x \in E : \E j \in 1..Len(x.scope) : x.scope[j] = s}}
      /\ \A x \in {"s1", "s2"} :
           Range(lookup(index.bySession, x)) = {e.hash : e \in {y \in E : y.session = x}}
      /\ Range(index.withDecidedAgainst)
           = {e.hash : e \in {x \in E : Len(x.decidedAgainst) > 0}}
      /\ index.commitCount = Len(index.commits)

\* C29: every index buildIndex produces has inverted maps that agree with
\* its commits, a commitCount equal to their number, and a headCommit that
\* is the tip of the log that was indexed.
C29_IndexIsConsistent ==
  \A i \in Runs :
    bRuns[i].kind = "ok" =>
      /\ MapsAgree(bRuns[i].index)
      /\ bRuns[i].index.headCommit = headOf(bRuns[i].log)

(***************************************************************************)
(* Path and since restrictions of the parse CLI  (SpecCli)                 *)
(***************************************************************************)
Restricted(o) ==
  \/ TruthyStr(o.path)
  \/ o.restriction.since # 0
  \/ o.restriction.sinceCommit # 0

\* C23: a run with a path filter, --since or --since-commit is never
\* answered from the index, and every commit it prints satisfies the
\* restriction.
C23_RestrictedQueriesUseGitLog ==
  (cOp = "run" /\ Restricted(cOptions)) =>
    /\ cPath \notin {"index", "index-empty"}
    /\ \A i \in 1..Len(cOut) :
         /\ WithinRestriction(cOut[i], cOptions)
         /\ TruthyStr(cOptions.path) => cOut[i].hash \in touched

(***************************************************************************)
(* The retrofit utility  (SpecRetrofit)                                    *)
(***************************************************************************)
ResultsFor(h) == {tResults[i] : i \in {j \in 1..Len(tResults) : tResults[j].hash = h}}

\* C24: --apply replaces the message of a commit only if the run has a
\* generated message for that commit whose validation gives no diagnostic of
\* severity error, and then by that message; every other commit keeps the
\* message it had.
C24_ApplyRewritesOnlyValidated ==
  [][\A h \in DOMAIN tMsg :
       tMsg'[h] # tMsg[h] =>
         /\ \E r \in ResultsFor(h) :
              /\ r.generated # "null"
              /\ ~hasErrors(validate(r.generated))
              /\ tMsg'[h] = r.generated]_vars

\* a run with --apply has ended: one commit carries its generated message,
\* another, whose generated message has an error, the message it had
C24_Witness ==
  /\ tPc = "done"
  /\ \E h \in DOMAIN tMsg : tMsg[h] = "warn"
  /\ \E h \in DOMAIN tMsg :
       /\ tMsg[h] = "orig"
       /\ \E r \in ResultsFor(h) : r.generated # "null" /\ hasErrors(r.diagnostics)

\* C25: in a run with --resume, a commit for which an earlier, interrupted
\* run generated a message gets no API call and a result with cached = true.
C25_ResumeSkipsCached ==
  (tPc # "off" /\ tOpt.resume) =>
    \A h \in tEarlier :
      /\ h \notin tCalls
      /\ \A r \in ResultsFor(h) : r.cached

(***************************************************************************)
(* rlm:configure  (SpecConfigure)                                          *)
(***************************************************************************)
Given(name) == \E i \in 1..Len(kArgs) : kArgs[i].name = name

\* the value of the last --name=n of the arguments
LastGiven(name) ==
  kArgs[CHOOSE i \in 1..Len(kArgs) :
          /\ kArgs[i].name = name
          /\ \A j \in (i + 1)..Len(kArgs) : kArgs[j].name # name].value

\* C26: after a run that ended without error, --repl-enable has stored
\* replEnabled = true, --repl-disable replEnabled = false, and each of
\* --repl-max-iterations, --repl-max-llm-calls, --repl-timeout-budget and
\* --repl-max-output-tokens that was given is stored with the value given.
C26_ReplFlagsArePersisted ==
  kExit = 0 =>
    /\ (Given("--repl-enable") /\ ~Given("--repl-disable")) => kStored.replEnabled
    /\ (Given("--repl-disable") /\ ~Given("--repl-enable")) => ~kStored.replEnabled
    /\ Given("--repl-max-iterations=") =>
         kStored.replMaxIterations = LastGiven("--repl-max-iterations=")
    /\ Given("--repl-max-llm-calls=") =>
         kStored.replMaxLlmCalls = LastGiven("--repl-max-llm-calls=")
    /\ Given("--repl-timeout-budget=") =>
         kStored.replTimeoutBudgetMs = LastGiven("--repl-timeout-budget=")
    /\ Given("--repl-max-output-tokens=") =>
         kStored.replMaxOutputTokens = LastGiven("--repl-max-output-tokens=")

(***************************************************************************)
(* The hook installer  (SpecHooks)                                         *)
(***************************************************************************)
\* one or more installs that ended well, then one uninstall that ended well
InstallsThenUninstall ==
  /\ Len(hTrace) >= 2
  /\ \A i \in 1..(Len(hTrace) - 1) : hTrace[i] = [op |-> "install", exit |-> 0]
  /\ hTrace[Len(hTrace)].op = "uninstall"

\* a call leaves the backup as it is, or moves it back to commit-msg
BackupKept ==
  hDir.backup # "none" =>
    \/ hDir'.backup = hDir.backup
    \/ hDir'.backup = "none" /\ hDir'.hook = hDir.backup

\* C27 as stated: from a hooks directory without a backup, one or more
\* installs followed by an uninstall leave the directory as it was before
\* the first install, and an existing backup is never overwritten.
C27_Original ==
  /\ []((hStart.backup = "none" /\ InstallsThenUninstall) => hDir = hStart)
  /\ [][BackupKept]_vars

\* C27, amended: the same, from a hooks directory without a backup whose
\* commit-msg hook, if there is one, does not contain the text
\* "Structured Git Commits"; a hook that contains it is taken for an earlier
\* installation, and the directory is left without a commit-msg hook.
C27_InstallIsReversible ==
  /\ []((hStart.backup = "none" /\ InstallsThenUninstall) =>
          hDir = IF includesName(hStart.hook) THEN HooksDir("none", "none") ELSE hStart)
  /\ [][BackupKept]_vars

\* a hook of the user was backed up, the shim installed twice, and the
\* uninstall has put the hook back
C27_Witness ==
  /\ hStart = HooksDir("user hook a", "none")
  /\ Len(hTrace) = 3
  /\ InstallsThenUninstall
  /\ hDir = hStart

(***************************************************************************)
(* The two reads of loadIndex  (SpecIndex)                                 *)
(***************************************************************************)
\* C28: the index loadIndex returns is the file content whose freshness it
\* checked: whatever happens to the file and the tip between its two reads,
\* the headCommit of a returned index is the HEAD value it was compared with.
C28_ReturnsWhatItChecked ==
  (Returned("load") /\ rResult.ok /\ ~rResult.null) =>
    /\ rResult.index = rSeen1
    /\ rResult.index.headCommit = rHead

(***************************************************************************)
(* callClaude  (SpecClaudeFair)                                            *)
(***************************************************************************)
\* the requests that were followed by another one
Retried == {aLog[i] : i \in 1..(Len(aLog) - 1)}

\* C30: callClaude ends with a Result after at most 1 + MAX_RETRIES requests;
\* only a 429 response or a network error is followed by another request, a
\* timeout or another non-OK status never is.
C30_EndsWithinThreeAttempts ==
  /\ [](aSent <= 1 + MAX_RETRIES)
  /\ [](\A r \in Retried : r.response \in {"429", "network error"})
  /\ [](aPc = "done" => aResult # [ok |-> FALSE, value |-> "pending"])
  /\ <>(aPc = "done")

=============================================================================
